---- MODULE Spec2Model ----
(***************************************************************************)
(* Model of the pipeline CLI dispatcher (pipeline/run.py), the domain      *)
(* entry points validate()/run() (pipeline/domains/<d>/__init__.py), and   *)
(* the schema-validation wrapper (pipeline/utils/validators.py).           *)
(*                                                                         *)
(* The specifications share the variables:                                 *)
(*   Spec      one run of python -m pipeline.run: the imports at the top   *)
(*             of run.py, which end the process before main() is entered.  *)
(*   SpecMain  one execution of main() with the domain modules loaded:     *)
(*             argument dispatch, validate_all, run_all, single-domain     *)
(*             run, process exit.                                          *)
(*   SpecUnit  one call of a single function on a bounded input            *)
(*             (a domain's validate(), validate_dataframe).                *)
(***************************************************************************)
EXTENDS Integers, Sequences, FiniteSets, TLC

VARIABLES
    args,        \* parsed command line: [validate, domain]
    pc,          \* position: "import", "main", "validate_all", "run_all", "done"
    config,      \* mode configured per domain once load_config() has run
    idx,         \* 1-based position of the loop over DOMAINS.items()
    calls,       \* log of the domain functions invoked so far, in order
    results,     \* the list validate_all() accumulates
    printed,     \* log of what went to the console
    exit_code,   \* process exit status, Running while the process is alive
    ucall,       \* SpecUnit: the function call under test and its input
    uout         \* SpecUnit: what the call produced

vars == <<args, pc, config, idx, calls, results, printed, exit_code, ucall, uout>>

(***************************************************************************)
(* Bounds                                                                  *)
(***************************************************************************)
MaxRows == 2          \* rows of a source table
MaxConfigured == 2    \* domains that carry an explicit mode in the config

(***************************************************************************)
(* Registry and per-domain signatures                                      *)
(***************************************************************************)
DOMAINS ==
    <<"sales", "inventory", "logistics", "hr", "finance",
      "marketing", "support", "procurement", "manufacturing", "quality">>

DomainNames == {DOMAINS[i] : i \in 1..Len(DOMAINS)}

DomainIndex(name) == CHOOSE i \in 1..Len(DOMAINS) : DOMAINS[i] = name

\* validate(df, schema_name=...) : the first parameter has no default
ValidateNeedsDf == {"inventory", "marketing", "manufacturing", "quality"}

\* run(...) declares an `incremental` keyword
AcceptsIncremental ==
    {"sales", "inventory", "logistics", "hr", "finance", "support", "procurement"}

\* run(...) hands `incremental` on to its ingest function
PassesIncremental ==
    {"sales", "inventory", "logistics", "finance", "support", "procurement"}

Running == 0 - 1
NoDomain == "<None>"
Absent == "<absent>"

Modes == {"full", "incremental", "dry-run", "turbo"}
DomainArgs == DomainNames \cup {NoDomain, "", "warehouse"}

Min(a, b) == IF a < b THEN a ELSE b

(***************************************************************************)
(* Tables and the pandera schemas of the domains.  A table is the set of   *)
(* its column names and the sequence of its rows; a cell is the text the   *)
(* source file holds, NaN a cell left empty.                               *)
(***************************************************************************)
NaN == "nan"

\* len(cell) of the cells of the string columns
StrLen(cell) ==
    CASE cell = "" -> 0
      [] cell \in {"T1", "V1", "P1", "C1"} -> 2
      [] cell = "Cash" -> 4
      [] cell = "V0001" -> 5
      [] cell \in {"T0001", "T0002"} -> 5

\* float(cell) of the cells of the numeric columns
NumberOf(cell) ==
    CASE cell = "1.0" -> 1
      [] cell = "2.0" -> 2
      [] cell = "0.0" -> 0
      [] cell = "-1.0" -> 0 - 1

\* the day a date cell names, as yyyymmdd
DateOf(cell) ==
    CASE cell = "2024-01-01" -> 20240101
      [] cell = "2019-06-01" -> 20190601

\* the cells of the enumerated tables a regular expression matches
StrMatches(pattern) ==
    CASE pattern = "^JE-\\d{8}-\\d{4}$" -> {"JE-20240101-0001", "JE-20240101-0002"}
      [] pattern = "^\\d{4,6}$" -> {"1000"}
      [] pattern = "^ENT-\\d{3}$" -> {"ENT-001"}
      [] pattern = "^\\d{4}-\\d{2}$" -> {"2024-01"}
      [] pattern = "^PO-\\d{6,10}$" -> {"PO-000001", "PO-000002"}
      [] pattern = "^[A-Z]{2,4}-\\d+$" -> {"ZD-1", "ZD-2"}

NoBound == 0 - 1

\* a Check: its name in the failure cases, what it tests, its arguments
CheckOf(name, kind, lo, hi, allowed) ==
    [check |-> name, kind |-> kind, lo |-> lo, hi |-> hi, allowed |-> allowed]

\* Column(dtype, checks, nullable=False, unique=False)
Column(name, checks, nullable, unique) ==
    [name |-> name, checks |-> checks, nullable |-> nullable, unique |-> unique]

\* whether one cell that is not null passes an element-wise check
Passes(chk, cell) ==
    CASE chk.kind = "str_length" ->
             /\ StrLen(cell) >= chk.lo
             /\ (chk.hi = NoBound \/ StrLen(cell) <= chk.hi)
      [] chk.kind = "isin" -> cell \in chk.allowed
      [] chk.kind = "str_matches" -> cell \in chk.allowed
      [] chk.kind = "not_equal_to_nan" -> TRUE
      [] chk.kind = "greater_than" -> NumberOf(cell) > chk.lo
      [] chk.kind = "greater_than_or_equal_to" -> NumberOf(cell) >= chk.lo
      [] chk.kind = "less_than" -> NumberOf(cell) < chk.hi
      [] chk.kind = "date_greater_than" -> DateOf(cell) > chk.lo

SALES_SCHEMA ==
    [columns |-> <<
        Column("transaction_id",
               <<CheckOf("str_length(5, None)", "str_length", 5, NoBound, {})>>, FALSE, TRUE),
        Column("transaction_date", <<>>, FALSE, FALSE),
        Column("amount",
               <<CheckOf("not_equal_to(nan)", "not_equal_to_nan", 0, 0, {})>>, FALSE, FALSE),
        Column("record_type",
               <<CheckOf("isin(['sale', 'return', 'adjustment', 'void', 'unknown'])", "isin",
                         0, 0, {"sale", "return", "adjustment", "void", "unknown"})>>,
               FALSE, FALSE),
        Column("direction",
               <<CheckOf("isin(['credit', 'debit', 'void', 'unknown'])", "isin",
                         0, 0, {"credit", "debit", "void", "unknown"})>>, FALSE, FALSE),
        Column("product_id",
               <<CheckOf("str_length(1, None)", "str_length", 1, NoBound, {})>>, FALSE, FALSE),
        Column("customer_id",
               <<CheckOf("str_length(1, None)", "str_length", 1, NoBound, {})>>, FALSE, FALSE),
        Column("region", <<>>, FALSE, FALSE)>>,
     checks |-> <<>>]

\* GL_LINE_SCHEMA, with its check over whole lines
FINANCE_SCHEMA ==
    [columns |-> <<
        Column("journal_id",
               <<CheckOf("str_matches('^JE-\\d{8}-\\d{4}$')", "str_matches", 0, 0,
                         StrMatches("^JE-\\d{8}-\\d{4}$"))>>, FALSE, FALSE),
        Column("posting_date", <<>>, FALSE, FALSE),
        Column("effective_date", <<>>, TRUE, FALSE),
        Column("account_code",
               <<CheckOf("str_matches('^\\d{4,6}$')", "str_matches", 0, 0,
                         StrMatches("^\\d{4,6}$"))>>, FALSE, FALSE),
        Column("account_name",
               <<CheckOf("str_length(1, 200)", "str_length", 1, 200, {})>>, FALSE, FALSE),
        Column("debit",
               <<CheckOf("greater_than_or_equal_to(0)", "greater_than_or_equal_to",
                         0, 0, {})>>, TRUE, FALSE),
        Column("credit",
               <<CheckOf("greater_than_or_equal_to(0)", "greater_than_or_equal_to",
                         0, 0, {})>>, TRUE, FALSE),
        Column("description", <<>>, TRUE, FALSE),
        Column("entity_code",
               <<CheckOf("str_matches('^ENT-\\d{3}$')", "str_matches", 0, 0,
                         StrMatches("^ENT-\\d{3}$"))>>, FALSE, FALSE),
        Column("cost_center", <<>>, TRUE, FALSE),
        Column("fiscal_period",
               <<CheckOf("str_matches('^\\d{4}-\\d{2}$')", "str_matches", 0, 0,
                         StrMatches("^\\d{4}-\\d{2}$"))>>, FALSE, FALSE)>>,
     checks |-> <<"Each line must have a debit or credit amount">>]

PROCUREMENT_SCHEMA ==
    [columns |-> <<
        Column("po_number",
               <<CheckOf("str_matches('^PO-\\d{6,10}$')", "str_matches", 0, 0,
                         StrMatches("^PO-\\d{6,10}$")),
                 CheckOf("Duplicate PO numbers found", "is_unique", 0, 0, {})>>,
               FALSE, FALSE),
        Column("vendor_id",
               <<CheckOf("str_length(3, 20)", "str_length", 3, 20, {})>>, FALSE, FALSE),
        Column("po_date",
               <<CheckOf("greater_than(2020-01-01)", "date_greater_than",
                         20200101, 0, {})>>, FALSE, FALSE),
        Column("delivery_date", <<>>, TRUE, FALSE),
        Column("amount",
               <<CheckOf("greater_than(0)", "greater_than", 0, 0, {}),
                 CheckOf("less_than(10000000)", "less_than", 0, 10000000, {})>>,
               FALSE, FALSE),
        Column("category", <<>>, TRUE, FALSE),
        Column("department", <<>>, TRUE, FALSE),
        Column("status",
               <<CheckOf("isin(['open', 'partially_received', 'fully_received', 'closed', 'cancelled'])",
                         "isin", 0, 0,
                         {"open", "partially_received", "fully_received", "closed",
                          "cancelled"})>>, FALSE, FALSE),
        Column("approved_by", <<>>, TRUE, FALSE),
        Column("approval_status",
               <<CheckOf("isin(['approved', 'rejected', 'pending'])", "isin", 0, 0,
                         {"approved", "rejected", "pending"})>>, TRUE, FALSE)>>,
     checks |-> <<>>]

TicketSchema ==
    [columns |-> <<
        Column("ticket_id",
               <<CheckOf("str_matches('^[A-Z]{2,4}-\\d+$')", "str_matches", 0, 0,
                         StrMatches("^[A-Z]{2,4}-\\d+$"))>>, FALSE, TRUE),
        Column("created_at", <<>>, FALSE, FALSE),
        Column("resolved_at", <<>>, TRUE, FALSE),
        Column("priority",
               <<CheckOf("isin(['critical', 'high', 'medium', 'low'])", "isin", 0, 0,
                         {"critical", "high", "medium", "low"})>>, FALSE, FALSE),
        Column("status",
               <<CheckOf("isin(['open', 'in_progress', 'pending', 'resolved', 'reopened', 'unknown'])",
                         "isin", 0, 0,
                         {"open", "in_progress", "pending", "resolved", "reopened",
                          "unknown"})>>, FALSE, FALSE),
        Column("agent_id", <<>>, TRUE, FALSE),
        Column("source_system",
               <<CheckOf("isin(['zendesk', 'intercom', 'email_inbox'])", "isin", 0, 0,
                         {"zendesk", "intercom", "email_inbox"})>>, FALSE, FALSE),
        Column("subject", <<>>, FALSE, FALSE),
        Column("resolution_hours",
               <<CheckOf("greater_than_or_equal_to(0)", "greater_than_or_equal_to",
                         0, 0, {})>>, TRUE, FALSE)>>,
     checks |-> <<>>]

\* the domains whose validate() checks a loaded table against a schema
SchemaDomains == {"sales", "finance", "procurement", "support"}

SchemaOf(d) ==
    CASE d = "sales" -> SALES_SCHEMA
      [] d = "finance" -> FINANCE_SCHEMA
      [] d = "procurement" -> PROCUREMENT_SCHEMA
      [] d = "support" -> TicketSchema

SchemaColumnSet(schema) == {schema.columns[i].name : i \in 1..Len(schema.columns)}

(***************************************************************************)
(* The tables the domains are given.  In every row the key column and one  *)
(* numeric column take any of their cells; the first row of a table with   *)
(* all columns may hold one more unusual cell; a table may lack one        *)
(* column, or all but the key and the numeric column, or have none.        *)
(***************************************************************************)
KeyColumn(d) ==
    CASE d = "sales" -> "transaction_id"
      [] d = "finance" -> "journal_id"
      [] d = "procurement" -> "po_number"
      [] d = "support" -> "ticket_id"

KeyCells(d) ==
    CASE d = "sales" -> {"T0001", "T0002", "T1"}
      [] d = "finance" -> {"JE-20240101-0001", "JE-1"}
      [] d = "procurement" -> {"PO-000001", "PO-000002", "PO-1"}
      [] d = "support" -> {"ZD-1", "ZD-2", "zd1"}

NumericColumn(d) ==
    CASE d = "sales" -> "amount"
      [] d = "finance" -> "debit"
      [] d = "procurement" -> "amount"
      [] d = "support" -> "resolution_hours"

NumericCells(d) ==
    CASE d = "sales" -> {"1.0", NaN}
      [] d = "finance" -> {"1.0", NaN, "-1.0"}
      [] d = "procurement" -> {"1.0", "0.0", NaN}
      [] d = "support" -> {"1.0", NaN, "-1.0"}

\* the cell a column usually holds
UsualCell(d, col) ==
    CASE col \in {"transaction_date", "posting_date", "effective_date", "po_date",
                  "delivery_date", "created_at", "resolved_at"} -> "2024-01-01"
      [] col = "record_type" -> "sale"
      [] col = "direction" -> "credit"
      [] col = "product_id" -> "P1"
      [] col = "customer_id" -> "C1"
      [] col = "region" -> "north"
      [] col = "account_code" -> "1000"
      [] col = "account_name" -> "Cash"
      [] col = "credit" -> NaN
      [] col = "entity_code" -> "ENT-001"
      [] col = "fiscal_period" -> "2024-01"
      [] col = "vendor_id" -> "V0001"
      [] col = "status" -> "open"
      [] col = "approval_status" -> "approved"
      [] col = "priority" -> "high"
      [] col = "source_system" -> "zendesk"
      [] OTHER -> "text"

NoOddCell == <<"", "">>

\* one cell of the first row that departs from the usual one
OddCells(d) ==
    CASE d = "sales" -> {<<"record_type", "refund">>, <<"direction", "sideways">>,
                         <<"product_id", "">>, <<"customer_id", "">>}
      [] d = "finance" -> {<<"account_code", "12">>, <<"account_name", "">>,
                           <<"credit", "2.0">>, <<"entity_code", "ENT-1">>,
                           <<"fiscal_period", "2024">>}
      [] d = "procurement" -> {<<"vendor_id", "V1">>, <<"po_date", "2019-06-01">>,
                               <<"status", "lost">>, <<"approval_status", "maybe">>}
      [] d = "support" -> {<<"priority", "urgent">>, <<"status", "closed">>,
                           <<"created_at", NaN>>}

TableRow(d, cols, key, number, odd) ==
    [c \in cols |->
        IF c = KeyColumn(d) THEN key
        ELSE IF c = NumericColumn(d) THEN number
        ELSE IF c = odd[1] THEN odd[2]
        ELSE UsualCell(d, c)]

\* the column sets of a table that does not have every column of the schema
PartialColumnSets(d) ==
    LET all == SchemaColumnSet(SchemaOf(d)) IN
    {all \ {c} : c \in all} \cup {{KeyColumn(d), NumericColumn(d)}}

EmptyFrame == [cols |-> {}, rows |-> <<>>]

Frame(d, cols, n, keys, numbers, odd) ==
    [cols |-> cols,
     rows |-> [k \in 1..n |->
                  TableRow(d, cols, keys[k], numbers[k], IF k = 1 THEN odd ELSE NoOddCell)]]

FramesOf(d) ==
    {EmptyFrame} \cup
    UNION {{Frame(d, SchemaColumnSet(SchemaOf(d)), n, keys, numbers, odd) :
               keys \in [1..n -> KeyCells(d)], numbers \in [1..n -> NumericCells(d)],
               odd \in OddCells(d) \cup {NoOddCell}} : n \in 0..MaxRows}
    \cup
    UNION {{Frame(d, cols, n, keys, numbers, NoOddCell) :
               keys \in [1..n -> KeyCells(d)], numbers \in [1..n -> NumericCells(d)],
               cols \in PartialColumnSets(d)} : n \in 0..MaxRows}

head(df, n) == [cols |-> df.cols, rows |-> SubSeq(df.rows, 1, Min(n, Len(df.rows)))]

(***************************************************************************)
(* The pandas the code runs on.  The modules use the `type` statement of   *)
(* Python 3.12, which pandas supports from 2.1.1 on; DataFrame.append and  *)
(* Series.iteritems were removed in pandas 2.0.  Looking either up raises  *)
(* AttributeError, and the receiver is left as it was.                     *)
(***************************************************************************)
DataFrameAppend(df, other) == [raised |-> "AttributeError", rows |-> df]

SeriesIteritems(line) == [raised |-> "AttributeError", items |-> <<>>]

RECURSIVE Flatten(_)
Flatten(ss) == IF ss = <<>> THEN <<>> ELSE Head(ss) \o Flatten(Tail(ss))

(***************************************************************************)
(* schema.validate(df, lazy=...) : the failure cases pandera reports.      *)
(* The columns of the schema that the table lacks come first, reported at  *)
(* schema level (column None, failure case the column's name).  Every      *)
(* column that is there is then checked for nulls, for duplicated values   *)
(* when it is declared unique, and by its checks, which skip null cells.   *)
(* The checks of the schema itself run last.                               *)
(***************************************************************************)
FailureCase(context, column, check, failure_case) ==
    [schema_context |-> context, column |-> column, check |-> check,
     failure_case |-> failure_case]

MissingCases(schema, df) ==
    Flatten([i \in 1..Len(schema.columns) |->
        IF schema.columns[i].name \in df.cols THEN <<>>
        ELSE <<FailureCase("DataFrameSchema", "None", "column_in_dataframe",
                           schema.columns[i].name)>>])

NullableCases(col, df) ==
    IF col.nullable THEN <<>>
    ELSE Flatten([k \in 1..Len(df.rows) |->
        IF df.rows[k][col.name] = NaN
        THEN <<FailureCase("Column", col.name, "not_nullable", NaN)>>
        ELSE <<>>])

UniqueCases(col, df) ==
    IF ~col.unique THEN <<>>
    ELSE Flatten([k \in 1..Len(df.rows) |->
        IF \E j \in 1..Len(df.rows) :
               j # k /\ df.rows[j][col.name] = df.rows[k][col.name]
        THEN <<FailureCase("Column", col.name, "field_uniqueness", df.rows[k][col.name])>>
        ELSE <<>>])

\* one check of a column; Check(lambda s: s.is_unique) fails as a whole
CheckCases(col, chk, df) ==
    IF chk.kind = "is_unique"
    THEN IF \E j, k \in 1..Len(df.rows) :
                /\ j # k
                /\ df.rows[j][col.name] # NaN
                /\ df.rows[j][col.name] = df.rows[k][col.name]
         THEN <<FailureCase("Column", col.name, chk.check, "False")>>
         ELSE <<>>
    ELSE Flatten([k \in 1..Len(df.rows) |->
        IF df.rows[k][col.name] # NaN /\ ~Passes(chk, df.rows[k][col.name])
        THEN <<FailureCase("Column", col.name, chk.check, df.rows[k][col.name])>>
        ELSE <<>>])

ColumnFailures(col, df) ==
    NullableCases(col, df) \o UniqueCases(col, df) \o
    Flatten([i \in 1..Len(col.checks) |-> CheckCases(col, col.checks[i], df)])

\* df["debit"].fillna(0) + df["credit"].fillna(0) > 0, line by line
FillNa(cell) == IF cell = NaN THEN 0 ELSE NumberOf(cell)

LinePasses(row) == FillNa(row["debit"]) + FillNa(row["credit"]) > 0

\* a check of the schema: the lambda raises KeyError on a table without the
\* column, which is reported as one failure case; the cells of a failing
\* line that are not null are reported column by column
FrameCheckCases(schema, name, df) ==
    IF "debit" \notin df.cols
    THEN <<FailureCase("DataFrameSchema", "None", name, "KeyError('debit')")>>
    ELSE IF "credit" \notin df.cols
    THEN <<FailureCase("DataFrameSchema", "None", name, "KeyError('credit')")>>
    ELSE Flatten([i \in 1..Len(schema.columns) |->
        IF schema.columns[i].name \notin df.cols THEN <<>>
        ELSE Flatten([k \in 1..Len(df.rows) |->
            IF LinePasses(df.rows[k]) \/ df.rows[k][schema.columns[i].name] = NaN
            THEN <<>>
            ELSE <<FailureCase("DataFrameSchema", schema.columns[i].name, name,
                               df.rows[k][schema.columns[i].name])>>])])

\* the failure cases in the order the checks run
CollectedCases(schema, df) ==
    MissingCases(schema, df) \o
    Flatten([i \in 1..Len(schema.columns) |->
        IF schema.columns[i].name \in df.cols
        THEN ColumnFailures(schema.columns[i], df)
        ELSE <<>>]) \o
    Flatten([i \in 1..Len(schema.checks) |-> FrameCheckCases(schema, schema.checks[i], df)])

\* SchemaErrors.failure_cases: sorted by schema_context, descending
FailureCases(schema, df) ==
    SelectSeq(CollectedCases(schema, df), LAMBDA fc : fc.schema_context = "DataFrameSchema")
    \o SelectSeq(CollectedCases(schema, df), LAMBDA fc : fc.schema_context = "Column")

\* lazy collects every failure case and raises SchemaErrors; eager raises
\* SchemaError at the first one
schema_validate(schema, df, lazy) ==
    IF CollectedCases(schema, df) = <<>> THEN [raised |-> "none", failure_cases |-> <<>>]
    ELSE IF lazy THEN [raised |-> "SchemaErrors", failure_cases |-> FailureCases(schema, df)]
    ELSE [raised |-> "SchemaError", failure_cases |-> <<CollectedCases(schema, df)[1]>>]

\* f"Column '{col}' failed check '{check}': {val}"
FormatFailure(fc) ==
    [column |-> fc.column, check |-> fc.check, failure_case |-> fc.failure_case]

\* validate_dataframe without lazy=True
validate_dataframe_eager(df, schema) ==
    LET r == schema_validate(schema, df, FALSE) IN
    IF r.raised = "none"
    THEN [raised |-> "none", valid |-> TRUE, status |-> "ok", errors |-> <<>>]
    ELSE IF r.raised = "SchemaErrors"
    THEN [raised |-> "none", valid |-> FALSE, status |-> "error",
          errors |-> [i \in 1..Len(r.failure_cases) |-> FormatFailure(r.failure_cases[i])]]
    ELSE [raised |-> r.raised, valid |-> FALSE, status |-> "error", errors |-> <<>>]

validate_dataframe(df, schema) ==
    LET r == schema_validate(schema, df, TRUE) IN
    IF r.raised = "none"
    THEN [raised |-> "none", valid |-> TRUE, status |-> "ok", errors |-> <<>>]
    ELSE IF r.raised = "SchemaErrors"
    THEN [raised |-> "none", valid |-> FALSE, status |-> "error",
          errors |-> [i \in 1..Len(r.failure_cases) |-> FormatFailure(r.failure_cases[i])]]
    ELSE [raised |-> r.raised, valid |-> FALSE, status |-> "error", errors |-> <<>>]

(***************************************************************************)
(* What a domain finds where its source files are expected                 *)
(***************************************************************************)
SourceKinds == {"missing_dir", "empty_dir", "unreadable", "files"}

\* "missing_dir": the directory is not there; "empty_dir": it holds no source
\* file; "unreadable": the process may not open the file (PermissionError);
\* "files": one source file, holding the frame (no header at all: EmptyFrame)
SourcesOf(d) ==
    {[kind |-> k, frame |-> EmptyFrame] : k \in {"missing_dir", "empty_dir", "unreadable"}}
    \cup {[kind |-> "files", frame |-> f] :
             f \in IF d \in SchemaDomains THEN FramesOf(d) ELSE {EmptyFrame}}

SourceMissing(src) == src.kind \in {"missing_dir", "empty_dir"}

\* schema.validate(None, lazy=True): what the installed pandera raises
PanderaNone == {"TypeError", "BackendNotFoundError"}

NoMessage == [kind |-> "", errs |-> <<>>]

Returned(status, message, rows) ==
    [outcome |-> "returned", exc |-> "", status |-> status,
     message |-> message, row_count |-> rows]

Raised(exc) ==
    [outcome |-> "raised", exc |-> exc, status |-> "",
     message |-> NoMessage, row_count |-> 0]

\* the validate_only / dry_run branch of the domain's ingest function
ValidateHead(d) ==
    IF d = "sales" THEN 1000 ELSE IF d = "finance" THEN 100 ELSE 500

\* the columns the loader sets on every chunk it has read
AddedColumns(d) ==
    IF d = "sales" THEN {"_source", "_file"}
    ELSE IF d = "finance" THEN {"source_file"}
    ELSE IF d = "procurement" THEN {"_source"}
    ELSE IF d = "support" THEN {"source_system"}
    ELSE {}

\* chunk["_source"] = source_name, chunk["_file"] = csv_path.name (sales, the
\* file lying in the first configured directory); chunk["source_file"] =
\* extract.name (finance); chunk["_source"] = "purchase_orders" (procurement);
\* df["source_system"] = source_name (support, the first of TICKET_SOURCES)
WithAddedColumns(d, df) ==
    LET cell(c) ==
            IF c = "_source"
            THEN IF d = "sales" THEN "pos_transactions" ELSE "purchase_orders"
            ELSE IF c = "source_system" THEN "zendesk"
            ELSE "file.csv"
    IN
    [cols |-> df.cols \cup AddedColumns(d),
     rows |-> [k \in 1..Len(df.rows) |->
                  [c \in df.cols \cup AddedColumns(d) |->
                      IF c \in AddedColumns(d) THEN cell(c) ELSE df.rows[k][c]]]]

\* the parse_dates of the domain's read of a source file
ParseDates(d) ==
    IF d = "sales" THEN {"transaction_date"}
    ELSE IF d = "finance" THEN {"posting_date", "effective_date"}
    ELSE IF d = "procurement" THEN {"po_date", "delivery_date"}
    ELSE IF d = "support" THEN {"created_at", "resolved_at"}
    ELSE {}

\* a file was read (the frame has a header) and read_csv raises ValueError:
\* Missing column provided to 'parse_dates'
MissingParseDates(d, df) == df # EmptyFrame /\ ~(ParseDates(d) \subseteq df.cols)

\* pd.read_csv(path, parse_dates=[...]) of the source file, and the columns
\* the loader then sets on the chunk
ReadSourceFile(d, src) ==
    IF src.kind = "unreadable" THEN [exc |-> "PermissionError", frame |-> EmptyFrame]
    ELSE IF src.frame = EmptyFrame THEN [exc |-> "EmptyDataError", frame |-> EmptyFrame]
    ELSE IF MissingParseDates(d, src.frame) THEN [exc |-> "ValueError", frame |-> EmptyFrame]
    ELSE [exc |-> "", frame |-> WithAddedColumns(d, src.frame)]

\* combined = combined.append(chunk, ignore_index=True)
AppendChunk(combined, chunk) ==
    [exc |-> IF DataFrameAppend(combined, chunk).raised = "none" THEN ""
             ELSE DataFrameAppend(combined, chunk).raised,
     frame |-> DataFrameAppend(combined, chunk).rows]

\* the loop over the source files: every chunk read is appended
ReadSourceFiles(d, src) ==
    IF SourceMissing(src) THEN [exc |-> "", frame |-> EmptyFrame]
    ELSE IF ReadSourceFile(d, src).exc # "" THEN ReadSourceFile(d, src)
    ELSE IF d = "support" /\ ReadSourceFile(d, src).frame.rows = <<>>
    THEN [exc |-> "", frame |-> EmptyFrame]
    ELSE AppendChunk(EmptyFrame, ReadSourceFile(d, src).frame)

\* the ingest function of the domain called with validate_only=True (hr: the
\* probe of the export directory).  load_sales_data and load_procurement_data
\* append what was read once more before they look at validate_only;
\* load_financial_sources returns gl.head(100) before its own appends;
\* fetch_ticket_data raises FileNotFoundError when nothing was combined
LoadForValidate(d, src) ==
    IF d = "hr"
    THEN IF src.kind = "missing_dir"
         THEN [exc |-> "FileNotFoundError", frame |-> EmptyFrame]
         ELSE [exc |-> "", frame |-> EmptyFrame]
    ELSE IF ReadSourceFiles(d, src).exc # "" THEN ReadSourceFiles(d, src)
    ELSE IF d \in {"sales", "procurement"}
    THEN AppendChunk(EmptyFrame, ReadSourceFiles(d, src).frame)
    ELSE IF d = "support" /\ ReadSourceFiles(d, src).frame.rows = <<>>
    THEN [exc |-> "FileNotFoundError", frame |-> EmptyFrame]
    ELSE [exc |-> "", frame |-> head(ReadSourceFiles(d, src).frame, ValidateHead(d))]

\* "; ".join(errs[:k])
MessageLimit(d) == IF d = "sales" THEN 3 ELSE 5

JoinErrors(d, errs) ==
    [kind |-> "schema", errs |-> SubSeq(errs, 1, Min(MessageLimit(d), Len(errs)))]

\* except FileNotFoundError: str(exc); except Exception: f"Unexpected: {exc}"
ExcMessage(exc) ==
    [kind |-> IF exc = "FileNotFoundError" THEN exc ELSE "Unexpected", errs |-> <<>>]

\* sales / finance / procurement validate()
ValidateWithSchema(d, src) ==
    LET l == LoadForValidate(d, src) IN
    IF l.exc # "" THEN Returned("error", ExcMessage(l.exc), 0)
    ELSE LET r == validate_dataframe(l.frame, SchemaOf(d)) IN
         IF r.raised # "none" THEN Returned("error", ExcMessage(r.raised), 0)
         ELSE IF r.valid THEN Returned("ok", NoMessage, Len(l.frame.rows))
         ELSE Returned("error", JoinErrors(d, r.errors), 0)

\* support validate(source="tickets"): one try around the load and the eager
\* TicketSchema.validate(raw); except FileNotFoundError: str(exc); except
\* Exception: f"Validation failed: {exc}"
ValidateSupport(src) ==
    LET l == LoadForValidate("support", src) IN
    IF l.exc = "FileNotFoundError"
    THEN Returned("error", [kind |-> "FileNotFoundError", errs |-> <<>>], 0)
    ELSE IF l.exc # "" \/ schema_validate(TicketSchema, l.frame, FALSE).raised # "none"
    THEN Returned("error", [kind |-> "Validation failed", errs |-> <<>>], 0)
    ELSE Returned("ok", NoMessage, Len(l.frame.rows))

\* hr validate(): only probes the export directory
ValidateHr(src) ==
    LET l == LoadForValidate("hr", src) IN
    IF l.exc # "" THEN Returned("error", ExcMessage(l.exc), 0)
    ELSE Returned("ok", NoMessage, 0)

\* logistics validate(): validates None, never looks at the source files
ValidateLogistics(lib) ==
    IF lib = "TypeError" THEN Returned("ok", NoMessage, 0)
    ELSE IF lib = "SchemaError"
    THEN Returned("error", [kind |-> "SchemaError", errs |-> <<>>], 0)
    ELSE Raised(lib)

\* module.validate() called with no arguments
DomainValidate(d, src, lib) ==
    IF d \in ValidateNeedsDf THEN Raised("TypeError")
    ELSE IF d = "logistics" THEN ValidateLogistics(lib)
    ELSE IF d = "hr" THEN ValidateHr(src)
    ELSE IF d = "support" THEN ValidateSupport(src)
    ELSE ValidateWithSchema(d, src)

\* module.run() / module.run(incremental=True); body is what the pipeline
\* stages do on the data present once the call has bound its arguments
DomainRun(d, kw, body) ==
    [fn |-> "run", domain |-> d, incremental |-> kw,
     outcome |-> IF kw /\ d \notin AcceptsIncremental THEN "raised" ELSE body,
     exc |-> IF kw /\ d \notin AcceptsIncremental THEN "TypeError"
             ELSE IF body = "raised" THEN "Exception" ELSE "",
     ingest_incremental |-> kw /\ d \in PassesIncremental]

ValidateCall(d, res) ==
    [fn |-> "validate", domain |-> d, incremental |-> FALSE,
     outcome |-> res.outcome, exc |-> res.exc, ingest_incremental |-> FALSE]

(***************************************************************************)
(* run.py                                                                  *)
(***************************************************************************)
\* the match statement of validate_all: the rows one result contributes
ValidateRow(name, res) ==
    IF res.status = "ok"
    THEN <<[domain |-> name, valid |-> TRUE, error |-> NoMessage,
            row_count |-> res.row_count]>>
    ELSE IF res.status = "error"
    THEN <<[domain |-> name, valid |-> FALSE, error |-> res.message, row_count |-> 0]>>
    ELSE IF res.status = "skipped"
    THEN <<>>
    ELSE <<[domain |-> name, valid |-> FALSE,
            error |-> [kind |-> "Unknown validation result", errs |-> <<>>],
            row_count |-> 0]>>

\* all(r["valid"] for r in results)
AllValid(rs) == \A i \in 1..Len(rs) : rs[i].valid

\* config.get("domains", {}).get(name, {}).get("mode", "full")
ConfiguredMode(cfg, name) == IF cfg[name] = Absent THEN "full" ELSE cfg[name]

\* the match statement of run_all
run_all_case(mode) ==
    IF mode = "full" THEN "run"
    ELSE IF mode = "incremental" THEN "run_incremental"
    ELSE IF mode = "dry-run" THEN "skip"
    ELSE "exit"

\* the if / elif / else of main(); an empty --domain value is falsy
main_branch(a) ==
    IF a.validate THEN "validate"
    ELSE IF a.domain # NoDomain /\ a.domain # ""
    THEN IF a.domain \notin DomainNames THEN "unknown_domain" ELSE "single"
    ELSE "run_all"

Configs ==
    UNION {{[d \in DomainNames |-> IF d \in S THEN m[d] ELSE Absent] : m \in [S -> Modes]} :
           S \in {T \in SUBSET DomainNames : Cardinality(T) <= MaxConfigured}}

NoConfig == [d \in DomainNames |-> Absent]

Say(msg, name) == [msg |-> msg, name |-> name]

\* main() is entered: the command line is parsed
InitMain ==
    /\ args \in [validate : BOOLEAN, domain : DomainArgs]
    /\ pc = "main"
    /\ config = NoConfig
    /\ idx = 1
    /\ calls = <<>>
    /\ results = <<>>
    /\ printed = <<>>
    /\ exit_code = Running
    /\ ucall = [op |-> "none"]
    /\ uout = [done |-> FALSE, val |-> <<>>]

\* main(): --validate given, enter validate_all()
MainValidate ==
    /\ pc = "main"
    /\ main_branch(args) = "validate"
    /\ pc' = "validate_all"
    /\ idx' = 1
    /\ UNCHANGED <<args, config, calls, results, printed, exit_code, ucall, uout>>

\* one iteration of the loop of validate_all(); after the last one main()
\* prints the table and exits 1 unless every row is valid
ValidateAllStep ==
    /\ pc = "validate_all"
    /\ idx <= Len(DOMAINS)
    /\ \E src \in SourcesOf(DOMAINS[idx]), lib \in PanderaNone :
         LET name == DOMAINS[idx]
             res == DomainValidate(name, src, lib)
             rows == results \o ValidateRow(name, res)
         IN /\ calls' = Append(calls, ValidateCall(name, res))
            /\ idx' = idx + 1
            /\ IF res.outcome = "raised"
               THEN /\ results' = results
                    /\ printed' = Append(printed, Say("Traceback", res.exc))
                    /\ exit_code' = 1
                    /\ pc' = "done"
               ELSE /\ results' = rows
                    /\ IF idx = Len(DOMAINS)
                       THEN /\ printed' = Append(printed, Say("Validation Results", ""))
                            /\ exit_code' = IF AllValid(rows) THEN 0 ELSE 1
                            /\ pc' = "done"
                       ELSE /\ printed' = printed
                            /\ exit_code' = exit_code
                            /\ pc' = pc
    /\ UNCHANGED <<args, config, ucall, uout>>

\* main(): --domain names something that is not registered
MainUnknownDomain ==
    /\ pc = "main"
    /\ main_branch(args) = "unknown_domain"
    /\ printed' = Append(printed, Say("Unknown domain", args.domain))
    /\ exit_code' = 1
    /\ pc' = "done"
    /\ UNCHANGED <<args, config, idx, calls, results, ucall, uout>>

\* main(): DOMAINS[args.domain].run()
MainSingleDomain ==
    /\ pc = "main"
    /\ main_branch(args) = "single"
    /\ \E body \in {"returned", "raised"} :
         LET call == DomainRun(args.domain, FALSE, body) IN
         /\ calls' = Append(calls, call)
         /\ printed' = IF call.outcome = "raised"
                       THEN Append(printed, Say("Traceback", call.exc)) ELSE printed
         /\ exit_code' = IF call.outcome = "raised" THEN 1 ELSE 0
    /\ pc' = "done"
    /\ UNCHANGED <<args, config, idx, results, ucall, uout>>

\* main(): run_all() up to the loop, load_config() included; with neither
\* pipeline.yaml nor pyproject.toml in place open() raises
MainRunAll ==
    /\ pc = "main"
    /\ main_branch(args) = "run_all"
    /\ idx' = 1
    /\ \/ /\ config' \in Configs
          /\ printed' = Append(printed, Say("Running all domain pipelines", ""))
          /\ pc' = "run_all"
          /\ exit_code' = exit_code
       \/ /\ config' = config
          /\ printed' = Append(printed, Say("Traceback", "FileNotFoundError"))
          /\ pc' = "done"
          /\ exit_code' = 1
    /\ UNCHANGED <<args, calls, results, ucall, uout>>

\* one iteration of the loop of run_all(); returning from the last one ends
\* the process with status 0
RunAllStep ==
    /\ pc = "run_all"
    /\ idx <= Len(DOMAINS)
    /\ LET name == DOMAINS[idx]
           what == run_all_case(ConfiguredMode(config, name))
           last == idx = Len(DOMAINS)
       IN /\ idx' = idx + 1
          /\ IF what \in {"run", "run_incremental"}
             THEN \E body \in {"returned", "raised"} :
                    LET call == DomainRun(name, what = "run_incremental", body) IN
                    /\ calls' = Append(calls, call)
                    /\ printed' = IF call.outcome = "raised"
                                  THEN Append(printed, Say("Traceback", call.exc))
                                  ELSE printed
                    /\ exit_code' = IF call.outcome = "raised" THEN 1
                                    ELSE IF last THEN 0 ELSE exit_code
                    /\ pc' = IF call.outcome = "raised" \/ last THEN "done" ELSE pc
             ELSE IF what = "skip"
             THEN /\ printed' = Append(printed, Say("Dry run", name))
                  /\ calls' = calls
                  /\ exit_code' = IF last THEN 0 ELSE exit_code
                  /\ pc' = IF last THEN "done" ELSE pc
             ELSE /\ printed' = Append(printed, Say("Unknown mode", name))
                  /\ calls' = calls
                  /\ exit_code' = 1
                  /\ pc' = "done"
    /\ UNCHANGED <<args, config, results, ucall, uout>>

NextMain ==
    \/ MainValidate
    \/ ValidateAllStep
    \/ MainUnknownDomain
    \/ MainSingleDomain
    \/ MainRunAll
    \/ RunAllStep

SpecMain == InitMain /\ [][NextMain]_vars

(***************************************************************************)
(* python -m pipeline.run: the module is executed from its first line.     *)
(* The two `from pipeline.domains import ...` statements load the domain   *)
(* packages one after the other.  hr/__init__.py imports                   *)
(* hr/compensation.py, and that file does not compile:                     *)
(* `case [*_, "i"] | [*_, "junior", *_]` has two starred names in one      *)
(* sequence pattern.  support/ingest.py and manufacturing/ingest.py import *)
(* names their modules do not define.  An exception of an import is not    *)
(* caught: traceback, exit status 1, and main() is never called.           *)
(* `config` holds the modes the configuration file on disk gives the       *)
(* domains, `idx` the position of the package being imported.              *)
(***************************************************************************)
ImportOrder ==
    <<"sales", "inventory", "logistics", "hr", "finance",
      "marketing", "support", "procurement", "manufacturing", "quality">>

\* what importing the package of a domain raises
ImportRaises(d) ==
    IF d = "hr" THEN "SyntaxError"
    ELSE IF d \in {"support", "manufacturing"} THEN "ImportError"
    ELSE "none"

Init ==
    /\ args \in [validate : BOOLEAN, domain : DomainArgs]
    /\ pc = "import"
    /\ config \in Configs
    /\ idx = 1
    /\ calls = <<>>
    /\ results = <<>>
    /\ printed = <<>>
    /\ exit_code = Running
    /\ ucall = [op |-> "none"]
    /\ uout = [done |-> FALSE, val |-> <<>>]

\* the import of one domain package by the import statements of run.py; after
\* the last one the module body goes on to main()
ImportPackage ==
    /\ pc = "import"
    /\ idx <= Len(ImportOrder)
    /\ IF ImportRaises(ImportOrder[idx]) = "none"
       THEN /\ idx' = IF idx = Len(ImportOrder) THEN 1 ELSE idx + 1
            /\ pc' = IF idx = Len(ImportOrder) THEN "main" ELSE pc
            /\ UNCHANGED <<printed, exit_code>>
       ELSE /\ printed' = Append(printed, Say("Traceback", ImportRaises(ImportOrder[idx])))
            /\ exit_code' = 1
            /\ pc' = "done"
            /\ idx' = idx
    /\ UNCHANGED <<args, config, calls, results, ucall, uout>>

Next == ImportPackage

Spec == Init /\ [][Next]_vars

(***************************************************************************)
(* Harness shared by the single-function specifications                    *)
(***************************************************************************)
UnitStart(inputs) ==
    /\ args = [validate |-> FALSE, domain |-> NoDomain]
    /\ pc = "unit"
    /\ config = NoConfig
    /\ idx = 1
    /\ calls = <<>>
    /\ results = <<>>
    /\ printed = <<>>
    /\ exit_code = Running
    /\ ucall \in inputs
    /\ uout = [done |-> FALSE, val |-> <<>>]

UnitApply(op, val) ==
    /\ pc = "unit"
    /\ ucall.op = op
    /\ ~uout.done
    /\ uout' = [done |-> TRUE, val |-> val]
    /\ UNCHANGED <<args, pc, config, idx, calls, results, printed, exit_code, ucall>>

Abs(x) == IF x < 0 THEN 0 - x ELSE x

(***************************************************************************)
(* Amounts as the binary doubles pandas holds.  An amount is counted in    *)
(* units of 0.005; the double nearest to k units, or met while summing, is *)
(* written [k, n] and stands for (k + n / 2^60) / 200: k is the decimal    *)
(* amount meant and n the rounding error carried so far.  Only residues of *)
(* k * 2^60 are ever computed, so every number stays small.                *)
(***************************************************************************)
RECURSIVE Pow2(_)
Pow2(j) == IF j = 0 THEN 1 ELSE 2 * Pow2(j - 1)

\* 2^p modulo m
RECURSIVE Pow2Mod(_, _)
Pow2Mod(p, m) == IF p = 0 THEN 1 % m ELSE (2 * Pow2Mod(p - 1, m)) % m

\* both tabulated once
PowersOfTwo == [j \in 0..25 |-> Pow2(j)]

ResiduesOfTwo == [p \in 0..60 |-> Pow2Mod(p, 400)]

Double(k, n) == [k |-> k, n |-> n]

\* the spacing of the doubles around (k + n / 2^60) / 200 is 2^g / 2^60:
\* g is 0 for amounts from 2^-8 up to 2^-7, and one more per binade
\* the binade a units lie in
Binade(a) ==
    CHOOSE i \in 0..24 : 200 * PowersOfTwo[i] <= 256 * a /\ 256 * a < 400 * PowersOfTwo[i]

SpacingIn(k, n, j) ==
    IF j > 0 /\ 256 * Abs(k) = 200 * PowersOfTwo[j]
             /\ ((k > 0 /\ n < 0) \/ (k < 0 /\ n > 0))
    THEN j - 1 ELSE j

Spacing(k, n) == SpacingIn(k, n, Binade(Abs(k)))

\* round to nearest double, ties to the even mantissa
\* rem is what lies above the double below, u the spacing in units of
\* 1 / (200 * 2^60), odd whether the double below has an odd mantissa
Nearest(k, n, u, rem, odd) ==
    IF rem = 0 THEN Double(k, n)
    ELSE IF 2 * rem < u THEN Double(k, n - rem)
    ELSE IF 2 * rem > u THEN Double(k, n + (u - rem))
    ELSE IF odd THEN Double(k, n + (u - rem))
    ELSE Double(k, n - rem)

NearestIn(k, n, u, w) == Nearest(k, n, u, w % u, w >= u)

RoundSpaced(k, n, g) ==
    NearestIn(k, n, 200 * PowersOfTwo[g],
              (PowersOfTwo[g] * (((k % 400) * ResiduesOfTwo[60 - g]) % 400) + n)
                  % (400 * PowersOfTwo[g]))

RoundToDouble(k, n) ==
    IF k = 0 THEN Double(0, n) ELSE RoundSpaced(k, n, Spacing(k, n))

\* the double a decimal literal or a parsed CSV cell of k units becomes
FromUnits(k) == RoundToDouble(k, 0)

DoubleAdd(x, y) == RoundToDouble(x.k + y.k, x.n + y.n)

DoubleSub(x, y) == RoundToDouble(x.k - y.k, x.n - y.n)

DoubleNeg(x) == Double(0 - x.k, 0 - x.n)

DoubleLess(x, y) == x.k < y.k \/ (x.k = y.k /\ x.n < y.n)

DoubleAbs(x) == IF DoubleLess(x, Double(0, 0)) THEN DoubleNeg(x) ELSE x

\* Series.sum(): the elements added one after the other, starting from 0.0
DoubleSum(xs) ==
    LET acc[i \in 0..Len(xs)] ==
            IF i = 0 THEN Double(0, 0) ELSE DoubleAdd(acc[i - 1], xs[i])
    IN acc[Len(xs)]

\* groupby(...).sum(): compensated (Kahan) summation of the group's elements
\* one step of the compensated sum: y is the element less the carried
\* compensation, t the new sum
KahanCarry(sumx, y, t) ==
    [sumx |-> t, compensation |-> DoubleSub(DoubleSub(t, sumx), y)]

KahanAdd(sumx, y) == KahanCarry(sumx, y, DoubleAdd(sumx, y))

KahanStep(acc, x) == KahanAdd(acc.sumx, DoubleSub(x, acc.compensation))

GroupSum(xs) ==
    LET acc[i \in 0..Len(xs)] ==
            IF i = 0 THEN [sumx |-> Double(0, 0), compensation |-> Double(0, 0)]
            ELSE KahanStep(acc[i - 1], xs[i])
    IN acc[Len(xs)].sumx

\* Series.round(2): rint(x * 100) / 100, the half rounded to the even
\* integer; the product is itself rounded to a double first
\* rint of q + (r + n / 2^60) / 200
Rint(q, r, n) ==
    IF r < 100 \/ (r = 100 /\ n < 0) THEN q
    ELSE IF r > 100 \/ (r = 100 /\ n > 0) THEN q + 1
    ELSE IF q % 2 = 0 THEN q ELSE q + 1

RintOf(p) == Rint(p.k \div 200, p.k % 200, p.n)

DoubleRound2(x) == FromUnits(2 * RintOf(RoundToDouble(100 * x.k, 100 * x.n)))

(***************************************************************************)
(* finance/journal.py.  A debit or credit cell holds the double nearest to *)
(* its decimal amount, given in units of 0.005, so the 0.01 of the balance *)
(* check is two units.  A posting date is a day of 2024 written mmdd.      *)
(***************************************************************************)
MaxLines == 3         \* lines of a transactions table
MaxSkipped == 6       \* one-line journals of a table of unbalanced journals

BalanceTolerance == 2

\* the journal ids in the order groupby sorts them
JournalIds == <<"JE-1", "JE-2", "JE-3", "JE-4", "JE-5", "JE-6", "JE-7", "JE-8">>

\* the ids the lines of a mixed table carry
LineJournalIds == <<"JE-1", "JE-2">>

JournalAmounts == {<<2, 0>>, <<0, 2>>, <<6, 0>>}

PostingDates == {115, 131}

JournalLines ==
    {[journal_id |-> LineJournalIds[j], debit |-> a[1], credit |-> a[2], journal_type |-> t,
      posting_date |-> d, description |-> "entry"] :
        j \in 1..Len(LineJournalIds), a \in JournalAmounts,
        t \in {"standard", "accrual"}, d \in PostingDates}

\* a table of n journals of one line each, none of them balanced
SkippedLine(j, a) ==
    [journal_id |-> JournalIds[j], debit |-> a[1], credit |-> a[2],
     journal_type |-> "standard", posting_date |-> 115, description |-> "entry"]

\* journal_df["debit"].sum() and journal_df["credit"].sum()
SumDebit(ls) == DoubleSum([i \in 1..Len(ls) |-> FromUnits(ls[i].debit)])

SumCredit(ls) == DoubleSum([i \in 1..Len(ls) |-> FromUnits(ls[i].credit)])

RECURSIVE MaxPostingDate(_)
MaxPostingDate(ls) ==
    IF Len(ls) = 1 THEN ls[1].posting_date
    ELSE LET m == MaxPostingDate(Tail(ls)) IN
         IF ls[1].posting_date > m THEN ls[1].posting_date ELSE m

\* the days of the months of 2024
DaysInMonth(m) ==
    IF m = 2 THEN 29 ELSE IF m \in {4, 6, 9, 11} THEN 30 ELSE 31

\* date + pd.DateOffset(months=1): the same day of the next month, or that
\* month's last day when it is shorter (dates before December)
DateOffsetMonth(d) ==
    100 * ((d \div 100) + 1) + Min(d % 100, DaysInMonth((d \div 100) + 1))

\* transactions.groupby("journal_id"): one group per id, rows in table order
JournalGroup(txns, id) == SelectSeq(txns, LAMBDA l : l.journal_id = id)

\* abs(total_debit - total_credit) < 0.01, all three in doubles
_validate_journal_balance(journal_df) ==
    DoubleLess(DoubleAbs(DoubleSub(SumDebit(journal_df), SumCredit(journal_df))),
               FromUnits(BalanceTolerance))

_build_reversal_entry(original, reversal_date) ==
    [i \in 1..Len(original) |->
        [journal_id |-> original[i].journal_id,
         debit |-> original[i].credit,
         credit |-> original[i].debit,
         journal_type |-> "auto_reversal",
         posting_date |-> reversal_date,
         description |-> "REVERSAL: entry"]]

\* for col, value in line.iteritems(): the loop is never entered
_extract_line_metadata(line) == SeriesIteritems(line)

\* the group and, for an accrual journal, its reversal, each handed to
\* processed.append
AppendGroup(processed, group) ==
    LET own == DataFrameAppend(processed, group) IN
    IF own.raised # "none" THEN own
    ELSE IF \E i \in 1..Len(group) : group[i].journal_type = "accrual"
    THEN DataFrameAppend(own.rows,
                         _build_reversal_entry(group, DateOffsetMonth(MaxPostingDate(group))))
    ELSE own

\* the loop body of process_journal_entries for one group: an unbalanced
\* journal is recorded; of a balanced one the first row is handed to
\* _extract_line_metadata, then the group is appended
JournalStep(acc, group, id) ==
    IF group = <<>> \/ acc.raised # "none" THEN acc
    ELSE IF ~_validate_journal_balance(group)
    THEN [raised |-> "none", processed |-> acc.processed, errors |-> Append(acc.errors, id)]
    ELSE IF _extract_line_metadata(group[1]).raised # "none"
    THEN [raised |-> _extract_line_metadata(group[1]).raised,
          processed |-> acc.processed, errors |-> acc.errors]
    ELSE [raised |-> AppendGroup(acc.processed, group).raised,
          processed |-> AppendGroup(acc.processed, group).rows,
          errors |-> acc.errors]

RECURSIVE JournalLoop(_, _)
JournalLoop(txns, n) ==
    IF n = 0 THEN [raised |-> "none", processed |-> <<>>, errors |-> <<>>]
    ELSE JournalStep(JournalLoop(txns, n - 1), JournalGroup(txns, JournalIds[n]), JournalIds[n])

\* errors[:5] as printed by the warning
FirstFive(errs) == SubSeq(errs, 1, Min(5, Len(errs)))

\* an exception of the loop leaves the function before the warning; after
\* the loop the warning is printed, and processed['journal_id'] raises
\* KeyError on the column-less frame that is left when no group was appended
process_journal_entries(transactions) ==
    LET r == JournalLoop(transactions, Len(JournalIds)) IN
    IF r.raised # "none"
    THEN [raised |-> r.raised, processed |-> <<>>, errors |-> r.errors, warned |-> <<>>]
    ELSE [raised |-> IF r.processed = <<>> THEN "KeyError" ELSE "none",
          processed |-> r.processed,
          errors |-> r.errors,
          warned |-> IF r.errors = <<>> THEN <<>> ELSE FirstFive(r.errors)]

InitJournal ==
    \/ \E n \in 0..MaxLines :
         \E t \in [1..n -> JournalLines] :
            UnitStart({[op |-> "process_journal_entries", txns |-> t]})
    \/ \E n \in 1..MaxSkipped :
         \E a \in [1..n -> {<<6, 0>>, <<0, 6>>}] :
            UnitStart({[op |-> "process_journal_entries",
                        txns |-> [j \in 1..n |-> SkippedLine(j, a[j])]]})

\* process_journal_entries(transactions)
CallProcessJournalEntries ==
    UnitApply("process_journal_entries", process_journal_entries(ucall.txns))

SpecJournal == InitJournal /\ [][CallProcessJournalEntries]_vars

(***************************************************************************)
(* manufacturing/bom.py                                                    *)
(***************************************************************************)
MaxBomRows == 2       \* rows of the BOM master table
MaxProdRows == 2      \* rows of the production data

BomIds == {"P1", "P2", "C1"}

BomRows ==
    {[parent_id |-> p, component_id |-> c, quantity_per |-> q] :
        p \in BomIds, c \in BomIds, q \in {1, 2}}

BomTables == UNION {[1..n -> BomRows] : n \in 0..MaxBomRows}

ProductionRows ==
    {[record_type |-> t, product_id |-> p] : t \in {"production", "scrap"}, p \in {"P1", "P2"}}

ProductionFrames == UNION {[1..n -> ProductionRows] : n \in 0..MaxProdRows}

\* the component cost feed: one price per component
UnitCost(c) == IF c = "C1" THEN 3 ELSE 5

\* Series.unique(): first occurrences, in order
RECURSIVE Unique(_)
Unique(q) ==
    IF q = <<>> THEN <<>>
    ELSE LET r == Unique(SubSeq(q, 1, Len(q) - 1)) IN
         IF \E i \in 1..Len(r) : r[i] = q[Len(q)] THEN r ELSE Append(r, q[Len(q)])

\* the interpreter gives up with RecursionError once the call depth passes
\* its limit; a table of n rows nests an acyclic tree at most n + 1 deep
CallDepthLimit(bom) == Len(bom) + 1

ScaleQuantity(rows, factor) ==
    [i \in 1..Len(rows) |->
        [rows[i] EXCEPT !.quantity_per = rows[i].quantity_per * factor]]

RECURSIVE _explode_bom_tree(_, _, _)
RECURSIVE ExplodeChildren(_, _, _, _)
\* the for loop of _explode_bom_tree over the first k direct rows
ExplodeChildren(bom, direct, k, depth) ==
    IF k = 0 THEN [raised |-> "none", rows |-> direct]
    ELSE LET before == ExplodeChildren(bom, direct, k - 1, depth) IN
         IF before.raised # "none" THEN before
         ELSE LET sub == _explode_bom_tree(bom, direct[k].component_id, depth - 1) IN
              IF sub.raised # "none" \/ sub.rows = <<>> THEN [sub EXCEPT !.rows = before.rows]
              ELSE DataFrameAppend(before.rows,
                                   ScaleQuantity(sub.rows, direct[k].quantity_per))

_explode_bom_tree(bom, product_id, depth) ==
    IF depth = 0 THEN [raised |-> "RecursionError", rows |-> <<>>]
    ELSE LET direct == SelectSeq(bom, LAMBDA r : r.parent_id = product_id) IN
         ExplodeChildren(bom, direct, Len(direct), depth)

_rollup_costs(exploded) ==
    [i \in 1..Len(exploded) |->
        [parent_id |-> exploded[i].parent_id,
         component_id |-> exploded[i].component_id,
         quantity_per |-> exploded[i].quantity_per,
         unit_cost |-> UnitCost(exploded[i].component_id),
         line_cost |-> exploded[i].quantity_per * UnitCost(exploded[i].component_id)]]

\* costed["finished_product_id"] = pid
TagProduct(costed, pid) ==
    [i \in 1..Len(costed) |->
        [finished_product_id |-> pid, component_id |-> costed[i].component_id,
         parent_id |-> costed[i].parent_id, quantity_per |-> costed[i].quantity_per,
         unit_cost |-> costed[i].unit_cost, line_cost |-> costed[i].line_cost]]

\* all_boms = all_boms.append(costed, ignore_index=True)
AppendCosted(before, costed) ==
    [raised |-> DataFrameAppend(before.all_boms, costed).raised,
     all_boms |-> DataFrameAppend(before.all_boms, costed).rows,
     warnings |-> before.warnings]

ProductIds(df) ==
    LET prod == SelectSeq(df, LAMBDA r : r.record_type = "production") IN
    Unique([i \in 1..Len(prod) |-> prod[i].product_id])

\* the loop of resolve_bill_of_materials over the first k product ids
RECURSIVE ResolveLoop(_, _, _)
ResolveLoop(bom, pids, k) ==
    IF k = 0 THEN [raised |-> "none", all_boms |-> <<>>, warnings |-> <<>>]
    ELSE LET before == ResolveLoop(bom, pids, k - 1) IN
         IF before.raised # "none" THEN before
         ELSE LET exploded == _explode_bom_tree(bom, pids[k], CallDepthLimit(bom)) IN
              IF exploded.raised # "none"
              THEN [raised |-> exploded.raised, all_boms |-> <<>>,
                    warnings |-> before.warnings]
              ELSE IF exploded.rows = <<>>
              THEN [before EXCEPT !.warnings = Append(before.warnings, pids[k])]
              ELSE AppendCosted(before, TagProduct(_rollup_costs(exploded.rows), pids[k]))

resolve_bill_of_materials(df, bom_master) ==
    ResolveLoop(bom_master, ProductIds(df), Len(ProductIds(df)))

BomCalls ==
    {[op |-> "resolve_bill_of_materials", df |-> d, bom |-> b] :
        d \in ProductionFrames, b \in BomTables}

InitBom == UnitStart(BomCalls)

\* resolve_bill_of_materials(df)
CallResolveBillOfMaterials ==
    UnitApply("resolve_bill_of_materials", resolve_bill_of_materials(ucall.df, ucall.bom))

SpecBom == InitBom /\ [][CallResolveBillOfMaterials]_vars

(***************************************************************************)
(* utils/validators.py : validate_unique                                   *)
(***************************************************************************)
MaxKeyRows == 3       \* rows of a frame checked for key uniqueness

KeyedRows == [k1 : {"a", "b"}, k2 : {"a", "b"}, v : {"x", "y"}]

KeyedFrames == UNION {[1..n -> KeyedRows] : n \in 0..MaxKeyRows}

KeyColumnLists == {<<"k1">>, <<"k2">>, <<"k1", "k2">>}

\* two rows agree on every column of the subset
SameKey(r1, r2, columns) == \A i \in 1..Len(columns) : r1[columns[i]] = r2[columns[i]]

\* df.duplicated(subset=columns, keep=False).sum()
DuplicatedCount(df, columns) ==
    Cardinality({k \in 1..Len(df) :
        \E j \in 1..Len(df) : j # k /\ SameKey(df[j], df[k], columns)})

\* validate_unique looking at the first key column only
validate_unique_first_column(df, columns) ==
    LET n == DuplicatedCount(df, <<columns[1]>>) IN
    IF n = 0 THEN [valid |-> TRUE, status |-> "ok", errors |-> <<>>]
    ELSE [valid |-> FALSE, status |-> "error",
          errors |-> <<[text |-> "duplicate rows on columns", n |-> n, columns |-> columns]>>]

validate_unique(df, columns) ==
    LET n == DuplicatedCount(df, columns) IN
    IF n = 0 THEN [valid |-> TRUE, status |-> "ok", errors |-> <<>>]
    ELSE [valid |-> FALSE, status |-> "error",
          errors |-> <<[text |-> "duplicate rows on columns", n |-> n, columns |-> columns]>>]

UniqueCalls ==
    {[op |-> "validate_unique", df |-> d, columns |-> c] :
        d \in KeyedFrames, c \in KeyColumnLists}

InitUnique == UnitStart(UniqueCalls)

\* validate_unique(df, columns)
CallValidateUnique ==
    UnitApply("validate_unique", validate_unique(ucall.df, ucall.columns))

SpecUnique == InitUnique /\ [][CallValidateUnique]_vars

(***************************************************************************)
(* utils/io.py : write_output and the read back of the written file        *)
(***************************************************************************)
MaxTableRows == 2     \* rows of a written table
MaxTableCols == 2     \* columns of a written table

ColumnNames == {"id", "date"}

\* a cell is written as text: one text parses as a date, the other does not
DateText == "2024-01-31"
TableCells == {DateText, "pending"}

ColumnLists == UNION {[1..n -> ColumnNames] : n \in 0..MaxTableCols}

\* pd.DataFrame() has neither columns nor rows
Tables ==
    {[cols |-> c, rows |-> r] :
        c \in ColumnLists,
        r \in UNION {[1..n -> [1..MaxTableCols -> TableCells]] : n \in 0..MaxTableRows}}

TableOf(cols, rows) ==
    [cols |-> cols,
     rows |-> IF cols = <<>> THEN <<>>
              ELSE [k \in 1..Len(rows) |-> [i \in 1..Len(cols) |-> rows[k][i]]]]

HasDuplicateNames(cols) ==
    \E i \in 1..Len(cols), j \in 1..Len(cols) : i < j /\ cols[i] = cols[j]

Formats == {"csv", "parquet", "excel", "json", "xml"}

NoFile == [fmt |-> "none", header |-> <<>>, lines |-> <<>>]

\* df.to_csv(path, index=False): a header line of the column names, one line a row
to_csv(df) == [fmt |-> "csv", header |-> df.cols, lines |-> df.rows]

\* the column-oriented writers keep the schema and the rows
to_file(df, fmt) == [fmt |-> fmt, header |-> df.cols, lines |-> df.rows]

write_output(df, fmt) ==
    CASE fmt = "csv" ->
           [raised |-> "none", file |-> to_csv(df), rows |-> Len(df.rows)]
      [] fmt = "parquet" ->
           IF HasDuplicateNames(df.cols)
           THEN [raised |-> "ValueError", file |-> NoFile, rows |-> 0]
           ELSE [raised |-> "none", file |-> to_file(df, fmt), rows |-> Len(df.rows)]
      [] fmt = "excel" ->
           [raised |-> "none", file |-> to_file(df, fmt), rows |-> Len(df.rows)]
      [] fmt = "json" ->
           IF HasDuplicateNames(df.cols)
           THEN [raised |-> "ValueError", file |-> NoFile, rows |-> 0]
           ELSE [raised |-> "none", file |-> to_file(df, fmt), rows |-> Len(df.rows)]
      [] OTHER ->
           [raised |-> "ValueError", file |-> NoFile, rows |-> 0]

\* a column read back is the written name and the number of earlier columns
\* of that name: pd.read_csv renames a repeated "id" to "id.1"
Mangle(header) ==
    [i \in 1..Len(header) |->
        <<header[i], Cardinality({j \in 1..(i - 1) : header[j] = header[i]})>>]

NotRead == [raised |-> "not read", cols |-> <<>>, rows |-> <<>>]

\* pd.read_csv(csv_file)
pd_read_csv(file) ==
    IF file.header = <<>>
    THEN [raised |-> "EmptyDataError", cols |-> <<>>, rows |-> <<>>]
    ELSE [raised |-> "none", cols |-> Mangle(file.header), rows |-> file.lines]

\* pd.to_datetime(chunk[name]) raises on a text that is no date
ToDatetimeRaises(chunk, name) ==
    \E i \in 1..Len(chunk.cols) :
        /\ chunk.cols[i] = <<name, 0>>
        /\ \E k \in 1..Len(chunk.rows) : chunk.rows[k][i] # DateText

HasColumn(chunk, name) == \E i \in 1..Len(chunk.cols) : chunk.cols[i] = <<name, 0>>

\* read_csv_files(path.parent, path.name): the one written file matches;
\* the chunk read from it is handed to all_data.append
read_csv_files(file) ==
    LET chunk == pd_read_csv(file) IN
    IF chunk.raised # "none" THEN chunk
    ELSE IF HasColumn(chunk, "timestamp") /\ ToDatetimeRaises(chunk, "timestamp")
         THEN [raised |-> "ValueError", cols |-> <<>>, rows |-> <<>>]
    ELSE IF ~HasColumn(chunk, "timestamp") /\ HasColumn(chunk, "date")
            /\ ToDatetimeRaises(chunk, "date")
         THEN [raised |-> "ValueError", cols |-> <<>>, rows |-> <<>>]
    ELSE IF DataFrameAppend(<<>>, chunk.rows).raised # "none"
         THEN [raised |-> DataFrameAppend(<<>>, chunk.rows).raised,
               cols |-> <<>>, rows |-> <<>>]
    ELSE chunk

\* pd.read_parquet(path)
pd_read_parquet(file) ==
    [raised |-> "none", cols |-> Mangle(file.header), rows |-> file.lines]

ReadBack(file) ==
    IF file.fmt = "csv" THEN read_csv_files(file) ELSE pd_read_parquet(file)

IoCalls ==
    {[op |-> "write_output", df |-> TableOf(t.cols, t.rows), fmt |-> f] :
        t \in Tables, f \in Formats}

InitIo == UnitStart(IoCalls)

\* write_output(df, path, fmt)
CallWriteOutput ==
    /\ pc = "unit"
    /\ ucall.op = "write_output"
    /\ ~uout.done
    /\ LET w == write_output(ucall.df, ucall.fmt)
           readable == w.raised = "none" /\ ucall.fmt \in {"csv", "parquet"}
       IN /\ uout' = [done |-> ~readable, val |-> [write |-> w, read |-> NotRead]]
          /\ pc' = IF readable THEN "written" ELSE "unit"
    /\ UNCHANGED <<args, config, idx, calls, results, printed, exit_code, ucall>>

\* the written file is read back
CallReadBack ==
    /\ pc = "written"
    /\ uout' = [done |-> TRUE,
                val |-> [write |-> uout.val.write, read |-> ReadBack(uout.val.write.file)]]
    /\ pc' = "unit"
    /\ UNCHANGED <<args, config, idx, calls, results, printed, exit_code, ucall>>

NextIo == CallWriteOutput \/ CallReadBack

SpecIo == InitIo /\ [][NextIo]_vars

(***************************************************************************)
(* domains/finance/transform.py : classify_account_type                    *)
(***************************************************************************)
MaxCodeLen == 4       \* characters of an account code

\* an account code is a string, written as the sequence of its characters
CodeChars == {"0", "1", "2", "3", "4", "5", "6", "7", "8", "9", "A", " "}

AccountCodes == UNION {[1..n -> CodeChars] : n \in 0..MaxCodeLen}

MatchPrefix(prefix) ==
    CASE prefix = <<"1">> -> "asset"
      [] prefix = <<"2">> -> "liability"
      [] prefix = <<"3">> -> "equity"
      [] prefix = <<"4">> -> "revenue"
      [] prefix = <<"5">> -> "cost_of_goods"
      [] prefix = <<"6">> -> "operating_expense"
      [] prefix = <<"7">> -> "other_income"
      [] prefix = <<"8">> -> "other_expense"
      [] prefix = <<"9">> -> "intercompany"
      [] OTHER -> "unclassified"

\* classify_account_type matching the whole code instead of its prefix
classify_account_type_whole_code(account_code) == MatchPrefix(account_code)

classify_account_type(account_code) ==
    LET prefix == IF account_code # <<>> THEN SubSeq(account_code, 1, 1) ELSE <<>>
    IN MatchPrefix(prefix)

ClassifyCalls == {[op |-> "classify_account_type", account_code |-> c] : c \in AccountCodes}

InitClassify == UnitStart(ClassifyCalls)

\* classify_account_type(account_code)
CallClassifyAccountType ==
    UnitApply("classify_account_type", classify_account_type(ucall.account_code))

SpecClassify == InitClassify /\ [][CallClassifyAccountType]_vars

(***************************************************************************)
(* domains/sales/export.py, domains/sales/__init__.py and                  *)
(* domains/finance/__init__.py : the artifacts a domain run leaves on disk *)
(***************************************************************************)
MaxSalesRows == 2     \* rows of the raw sales table
MaxRuns == 2          \* runs of one domain on the same inputs
MaxClock == 2         \* seconds of wall-clock time, as run directory names

Regions == {"EU", "US"}
MissingRegion == "<NaN>"        \* a missing value: it differs from itself
NoColumn == "<no column>"       \* the table has no region column
FilledRegion == "UNKNOWN"

\* a sales table: whether it has the region column, and its rows, each known
\* by its position in the table
SalesTable(has_region, regions) ==
    [has_region |-> has_region,
     rows |-> [k \in 1..Len(regions) |-> [id |-> k, region |-> regions[k]]]]

SalesTablesWith(has_region, values) ==
    UNION {{SalesTable(has_region, r) : r \in [1..n -> values]} : n \in 0..MaxSalesRows}

SalesTables ==
    SalesTablesWith(TRUE, Regions \cup {MissingRegion, FilledRegion})
    \cup SalesTablesWith(FALSE, {NoColumn})

\* "region" in cleaned.columns
HasRegionColumn(cleaned) == cleaned.has_region

\* df[partition_col].unique(): the values in order of first appearance
UniqueValues(df) ==
    LET firsts == {k \in 1..Len(df) : \A j \in 1..(k - 1) : df[j].region # df[k].region}
        pick[k \in 0..Len(df)] ==
            IF k = 0 THEN <<>>
            ELSE IF k \in firsts THEN Append(pick[k - 1], df[k].region)
                 ELSE pick[k - 1]
    IN pick[Len(df)]

\* df[df[partition_col] == val]: a missing value equals nothing
Subset(df, val) ==
    SelectSeq(df, LAMBDA r : r.region = val /\ val # MissingRegion)

NoPartition == [column |-> "", value |-> ""]

FilePath(run, dir, part, name) == [run |-> run, dir |-> dir, part |-> part, name |-> name]

\* a write replaces the file of the same path
WriteFiles(fs, files) ==
    {f \in fs : \A g \in files : g.path # f.path} \cup files

\* _write_partitioned(df, path, partition_col) on the rows of df: one
\* directory and file per unique value, the one of a missing value included
_write_partitioned(df, run, partition_col) ==
    LET vals == UniqueValues(df)
        written[i \in 0..Len(vals)] ==
            IF i = 0 THEN 0 ELSE written[i - 1] + Len(Subset(df, vals[i]))
    IN
    [files |-> {[path |-> FilePath(run, "transactions",
                                   [column |-> partition_col, value |-> vals[i]],
                                   <<"data", ".parquet">>),
                 rows |-> Subset(df, vals[i])] : i \in 1..Len(vals)},
     rows_written |-> written[Len(vals)]]

ExportFormats == {"parquet", "csv", "xml"}

Suffix(fmt) ==
    CASE fmt = "parquet" -> ".parquet" [] fmt = "csv" -> ".csv"
      [] fmt = "json" -> ".json" [] fmt = "excel" -> ".xlsx" [] OTHER -> ""

\* _write_single(df, path, fmt): path.with_suffix of the format
_write_single(df, run, dir, stem, fmt) ==
    IF Suffix(fmt) = ""
    THEN [raised |-> "ValueError", files |-> {}]
    ELSE [raised |-> "none",
          files |-> {[path |-> FilePath(run, dir, NoPartition, <<stem, Suffix(fmt)>>),
                      rows |-> df]}]

Summaries ==
    {<<[name |-> "by_region", empty |-> a], [name |-> "time_series", empty |-> b]>> :
        a \in BOOLEAN, b \in BOOLEAN}

\* _get_export_config(): the [export] table of config.toml
ExportConfigs == [format : ExportFormats, partitioned : BOOLEAN]

\* for name, summary_df in summaries.items(): the loop ends at the first raise
WriteSummaries(summaries, run, fmt) ==
    LET step[i \in 0..Len(summaries)] ==
            IF i = 0 THEN [raised |-> "none", files |-> {}]
            ELSE IF step[i - 1].raised # "none" \/ summaries[i].empty THEN step[i - 1]
            ELSE LET w == _write_single(<<>>, run, "summaries", summaries[i].name, fmt)
                 IN [raised |-> w.raised, files |-> step[i - 1].files \cup w.files]
    IN step[Len(summaries)]

\* write_sales_output(cleaned, summaries, report) called at the second `now`.
\* Nothing makes run_dir itself: it comes to exist with the first partition
\* directory (mkdir(parents=True), export.py:31) or the first _write_single
\* (path.parent.mkdir, export.py:40).  When the table is written partitioned,
\* has no region value at all and every summary is empty, no directory was
\* made and report_df.to_json(run_dir / "report_manifest.json") raises OSError.
write_sales_output(cleaned, summaries, cfg, now) ==
    LET fmt == cfg.format
        is_parted == cfg.partitioned /\ HasRegionColumn(cleaned)
        parted == _write_partitioned(cleaned.rows, now, "region")
        single == _write_single(cleaned.rows, now, "", "transactions", fmt)
        tx == IF is_parted
              THEN [raised |-> "none", files |-> parted.files, n |-> parted.rows_written]
              ELSE [raised |-> single.raised, files |-> single.files,
                    n |-> Len(cleaned.rows)]
        sm == WriteSummaries(summaries, now, fmt)
        run_dir_made == \/ ~is_parted
                        \/ UniqueValues(cleaned.rows) # <<>>
                        \/ \E i \in 1..Len(summaries) : ~summaries[i].empty
        manifest == [path |-> FilePath(now, "", NoPartition, <<"report_manifest", ".json">>),
                     rows |-> <<>>]
    IN
    IF tx.raised # "none" THEN [raised |-> tx.raised, files |-> {}, reported |-> 0]
    ELSE IF sm.raised # "none"
         THEN [raised |-> sm.raised, files |-> tx.files \cup sm.files, reported |-> tx.n]
    ELSE IF ~run_dir_made
         THEN [raised |-> "OSError", files |-> tx.files \cup sm.files, reported |-> tx.n]
    ELSE [raised |-> "none", files |-> tx.files \cup sm.files \cup {manifest},
          reported |-> tx.n]

\* load_sales_data(incremental=...): every configured source directory is
\* read and what was read is appended to `combined` (sales/ingest.py:59-62)
load_sales_data(src) ==
    IF ReadSourceFiles("sales", src).exc # "" THEN ReadSourceFiles("sales", src)
    ELSE AppendChunk(EmptyFrame, ReadSourceFiles("sales", src).frame)

\* build_sales_summaries(cleaned): time_summary.append(grain_df) for the first
\* time grain (sales/aggregate.py:55-58)
build_sales_summaries(cleaned) == AppendChunk(EmptyFrame, EmptyFrame)

\* sales run(): load_sales_data, clean_sales_records, build_sales_summaries,
\* reconcile_with_accounting, generate_report, write_sales_output; an
\* exception of a stage ends the run before the stages after it
sales_run(src) ==
    IF load_sales_data(src).exc # ""
    THEN [raised |-> load_sales_data(src).exc, files |-> {}, reported |-> 0]
    ELSE [raised |-> build_sales_summaries(load_sales_data(src).frame).exc,
          files |-> {}, reported |-> 0]

\* load_financial_sources(incremental=...): the GL extracts are read and
\* appended to `all_data` (finance/ingest.py:59-67)
load_financial_sources(src) ==
    IF ReadSourceFiles("finance", src).exc # "" THEN ReadSourceFiles("finance", src)
    ELSE AppendChunk(EmptyFrame, ReadSourceFiles("finance", src).frame)

\* finance run(): load_financial_sources, load_chart_of_accounts,
\* normalize_transactions, process_journal_entries and the stages up to
\* write_output(consolidated, "output/finance/consolidated.parquet")
finance_run(src) ==
    IF load_financial_sources(src).exc # ""
    THEN [raised |-> load_financial_sources(src).exc, files |-> {}, reported |-> 0]
    ELSE [raised |-> process_journal_entries(<<>>).raised, files |-> {}, reported |-> 0]

ExportCalls ==
    {[op |-> "run", domain |-> "sales", src |-> r] : r \in SourcesOf("sales")}
    \cup {[op |-> "run", domain |-> "finance", src |-> r] : r \in SourcesOf("finance")}
    \cup {[op |-> "write_sales_output", cleaned |-> t, summaries |-> s, config |-> c] :
            t \in SalesTables, s \in Summaries, c \in ExportConfigs}

NoRun == [raised |-> "not run", files |-> {}, reported |-> 0]

InitExport ==
    /\ args = [validate |-> FALSE, domain |-> NoDomain]
    /\ pc = "unit"
    /\ config = NoConfig
    /\ idx = 1
    /\ calls = <<>>
    /\ results = <<>>
    /\ printed = <<>>
    /\ exit_code = Running
    /\ ucall \in ExportCalls
    /\ uout = [done |-> FALSE,
               val |-> [fs |-> {}, first |-> {}, runs |-> 0, clock |-> 1, last |-> NoRun]]

\* the disk and the clock after one more call on the unchanged inputs
AfterRun(r, now) ==
    LET fs == WriteFiles(uout.val.fs, r.files) IN
    [done |-> uout.val.runs + 1 = MaxRuns,
     val |-> [fs |-> fs,
              first |-> IF uout.val.runs = 0 THEN fs ELSE uout.val.first,
              runs |-> uout.val.runs + 1,
              clock |-> now,
              last |-> r]]

\* sales run() on the unchanged inputs, started at some later or equal second
SalesRun ==
    /\ pc = "unit"
    /\ ucall.op = "run"
    /\ ucall.domain = "sales"
    /\ uout.val.runs < MaxRuns
    /\ \E now \in uout.val.clock..MaxClock :
          uout' = AfterRun(sales_run(ucall.src), now)
    /\ UNCHANGED <<args, pc, config, idx, calls, results, printed, exit_code, ucall>>

\* finance run() on the unchanged inputs
FinanceRun ==
    /\ pc = "unit"
    /\ ucall.op = "run"
    /\ ucall.domain = "finance"
    /\ uout.val.runs < MaxRuns
    /\ \E now \in uout.val.clock..MaxClock :
          uout' = AfterRun(finance_run(ucall.src), now)
    /\ UNCHANGED <<args, pc, config, idx, calls, results, printed, exit_code, ucall>>

\* write_sales_output(cleaned, summaries, report), the export stage of the
\* sales run, called at some later or equal second on the unchanged tables
WriteSalesOutput ==
    /\ pc = "unit"
    /\ ucall.op = "write_sales_output"
    /\ uout.val.runs < MaxRuns
    /\ \E now \in uout.val.clock..MaxClock :
          uout' = AfterRun(write_sales_output(ucall.cleaned, ucall.summaries,
                                              ucall.config, now), now)
    /\ UNCHANGED <<args, pc, config, idx, calls, results, printed, exit_code, ucall>>

NextExport == SalesRun \/ FinanceRun \/ WriteSalesOutput

SpecExport == InitExport /\ [][NextExport]_vars

(***************************************************************************)
(* validation/suites.py and validation/expectations.py                     *)
(***************************************************************************)
\* one expectation of a suite: its type and the columns its kwargs name
Expect(t, cols) == [expectation_type |-> t, columns |-> cols]

ColumnToExist(c) == Expect("expect_column_to_exist", {c})
NotBeNull(c) == Expect("expect_column_values_to_not_be_null", {c})
BeUnique(c) == Expect("expect_column_values_to_be_unique", {c})
BeBetween(c) == Expect("expect_column_values_to_be_between", {c})
BeInSet(c) == Expect("expect_column_values_to_be_in_set", {c})

_DOMAIN_SUITES ==
    [sales |-> <<ColumnToExist("transaction_id"), NotBeNull("transaction_id"),
                 BeUnique("transaction_id"), BeBetween("amount"), NotBeNull("customer_id")>>,
     inventory |-> <<ColumnToExist("sku"), NotBeNull("sku"), BeBetween("quantity"),
                     BeInSet("warehouse_id")>>,
     finance |-> <<ColumnToExist("account_code"), NotBeNull("account_code"),
                   NotBeNull("fiscal_period"),
                   Expect("expect_column_pair_values_to_be_equal", {"debit", "credit"})>>,
     hr |-> <<ColumnToExist("employee_id"), NotBeNull("employee_id"),
              BeUnique("employee_id"), BeInSet("status")>>,
     logistics |-> <<ColumnToExist("shipment_id"), NotBeNull("shipment_id"),
                     BeBetween("weight_kg")>>,
     marketing |-> <<ColumnToExist("campaign_id"), NotBeNull("campaign_id"),
                     BeBetween("spend"), BeBetween("impressions")>>,
     procurement |-> <<ColumnToExist("po_number"), NotBeNull("po_number"),
                       BeBetween("total_amount")>>,
     support |-> <<ColumnToExist("ticket_id"), NotBeNull("ticket_id"), BeInSet("priority")>>,
     quality |-> <<ColumnToExist("inspection_id"), NotBeNull("inspection_id"),
                   BeInSet("result")>>,
     manufacturing |-> <<ColumnToExist("work_order_id"), NotBeNull("work_order_id"),
                         BeBetween("yield_pct")>>]

build_suite_for_domain(domain) ==
    IF domain \in DOMAIN _DOMAIN_SUITES THEN _DOMAIN_SUITES[domain]
    ELSE <<Expect("expect_table_row_count_to_be_between", {})>>

SuiteColumns(suite) == UNION {suite[i].columns : i \in 1..Len(suite)}

SuiteTypes(suite) == {suite[i].expectation_type : i \in 1..Len(suite)}

\* getattr(ge_df, method_name)(**kwargs): the dataset is known by the columns
\* it has and by whether its values satisfy each expectation; the installed
\* library by the expectation types it lacks and by whether it rejects the
\* or_equal keyword of the finance suite
Evaluate(lib, ge_df, expectation, i) ==
    IF expectation.expectation_type \in lib.lacks THEN "AttributeError"
    ELSE IF expectation.expectation_type = "expect_column_to_exist"
         THEN IF expectation.columns \subseteq ge_df.columns THEN "success" ELSE "failure"
    ELSE IF ~(expectation.columns \subseteq ge_df.columns) THEN "KeyError"
    ELSE IF expectation.expectation_type = "expect_column_pair_values_to_be_equal"
            /\ lib.rejects_or_equal
         THEN "TypeError"
    ELSE IF ge_df.holds[i] THEN "success" ELSE "failure"

\* the loop over suite_config: an exception other than AttributeError leaves it
ExpectationLoop(lib, ge_df, suite) ==
    LET step[i \in 0..Len(suite)] ==
            IF i = 0
            THEN [raised |-> "none", total |-> 0, passed |-> 0,
                  failed_expectations |-> <<>>, evaluated |-> <<>>]
            ELSE LET s == step[i - 1]
                     method_name == suite[i].expectation_type
                     result == Evaluate(lib, ge_df, suite[i], i)
                     t == [s EXCEPT !.total = @ + 1, !.evaluated = Append(@, i)]
                 IN IF s.raised # "none" THEN s
                    ELSE IF result = "success" THEN [t EXCEPT !.passed = @ + 1]
                    ELSE IF result = "failure"
                         THEN [t EXCEPT !.failed_expectations =
                                   Append(@, [method |-> method_name, text |-> "failures"])]
                    ELSE IF result = "AttributeError"
                         THEN [t EXCEPT !.failed_expectations =
                                   Append(@, [method |-> method_name, text |-> "not supported"])]
                    ELSE [t EXCEPT !.raised = result]
    IN step[Len(suite)]

run_domain_expectations(lib, domain, df, strict) ==
    LET suite_config == build_suite_for_domain(domain)
        loop == ExpectationLoop(lib, df, suite_config)
        n == loop.total - loop.passed
        status == IF n = 0 THEN "passed"
                  ELSE IF n <= 2 /\ ~strict THEN "warning"
                  ELSE "failed"
    IN [raised |-> loop.raised,
        domain |-> domain,
        status |-> IF loop.raised = "none" THEN status ELSE "none",
        total |-> loop.total,
        passed |-> loop.passed,
        failed_expectations |-> loop.failed_expectations,
        evaluated |-> loop.evaluated]

ExpectationDomains == DomainNames \cup {"warehouse"}

Libraries(suite) ==
    {[lacks |-> l, rejects_or_equal |-> r] :
        l \in {{}} \cup {{t} : t \in SuiteTypes(suite)}, r \in BOOLEAN}

Datasets(suite) ==
    {[columns |-> c, holds |-> h] :
        c \in SUBSET SuiteColumns(suite), h \in [1..Len(suite) -> BOOLEAN]}

ExpectationCalls ==
    UNION {{[op |-> "run_domain_expectations", domain |-> d, df |-> ds, strict |-> s,
             lib |-> l] :
               ds \in Datasets(build_suite_for_domain(d)),
               l \in Libraries(build_suite_for_domain(d)),
               s \in BOOLEAN} : d \in ExpectationDomains}

InitExpectations == UnitStart(ExpectationCalls)

\* run_domain_expectations(domain, df, strict)
CallRunDomainExpectations ==
    UnitApply("run_domain_expectations",
              run_domain_expectations(ucall.lib, ucall.domain, ucall.df, ucall.strict))

SpecExpectations == InitExpectations /\ [][CallRunDomainExpectations]_vars

(***************************************************************************)
(* deploy.py : check_branch, deploy_to_s3, main                            *)
(***************************************************************************)
MaxRefParts == 3      \* path segments of the GITHUB_REF value

\* a ref is the sequence of its segments: "refs/heads/main" has three
RefParts == {"refs", "heads", "tags", "main", "dev"}
MainRef == <<"refs", "heads", "main">>

RefValues == UNION {[1..n -> RefParts] : n \in 0..MaxRefParts}

\* the environment: GITHUB_REF may be unset, and may be set to the empty string
Environments == {[set |-> s, value |-> v] : s \in BOOLEAN, v \in RefValues}
                   \ {[set |-> FALSE, value |-> v] : v \in RefValues \ {<<>>}}

\* os.environ.get("GITHUB_REF", "")
EnvironGet(env) == IF env.set THEN env.value ELSE <<>>

\* check_branch(): TRUE when it calls sys.exit(1)
check_branch(env) ==
    LET ref == EnvironGet(env) IN ref # <<>> /\ ref # MainRef

DeployDomains ==
    <<"sales", "inventory", "logistics", "hr", "finance",
      "marketing", "support", "procurement", "manufacturing", "quality">>

deploy_to_s3(domain) ==
    LET bucket == CASE domain \in {"sales", "marketing"} -> "prod-analytics"
                    [] domain \in {"finance", "procurement"} -> "prod-finance"
                    [] domain = "hr" -> "prod-hr-confidential"
                    [] domain \in {"manufacturing", "quality"} -> "prod-manufacturing"
                    [] OTHER -> "prod-general"
    IN [domain |-> domain, bucket |-> bucket, success |-> TRUE]

\* pyproject.toml next to the package: readable with a version, absent, or
\* without the tool.poetry.version key
Pyprojects == {"versioned", "absent", "unversioned"}

DeployCalls == {[op |-> "deploy", env |-> e, pyproject |-> p] :
                   e \in Environments, p \in Pyprojects}

InitDeploy ==
    /\ args = [validate |-> FALSE, domain |-> NoDomain]
    /\ pc = "deploy"
    /\ config = NoConfig
    /\ idx = 1
    /\ calls = <<>>
    /\ results = <<>>
    /\ printed = <<>>
    /\ exit_code = Running
    /\ ucall \in DeployCalls
    /\ uout = [done |-> FALSE, val |-> <<>>]

\* main() up to the loop: check_branch(), the banner, the version line
DeployMain ==
    /\ pc = "deploy"
    /\ IF check_branch(ucall.env)
       THEN /\ printed' = <<"ERROR: Can only deploy from main branch.", "Current ref">>
            /\ exit_code' = 1
            /\ pc' = "exit"
       ELSE IF ucall.pyproject # "versioned"
       THEN /\ printed' = <<"Deploying pipeline outputs to production...">>
            /\ exit_code' = 1
            /\ pc' = "exit"
       ELSE /\ printed' = <<"Deploying pipeline outputs to production...", "Pipeline version">>
            /\ exit_code' = Running
            /\ pc' = "deploying"
    /\ UNCHANGED <<args, config, idx, calls, results, ucall, uout>>

\* one iteration of the loop over domains; the last one ends main()
DeployStep ==
    /\ pc = "deploying"
    /\ idx <= Len(DeployDomains)
    /\ LET result == deploy_to_s3(DeployDomains[idx])
           all == Append(results, result)
           last == idx = Len(DeployDomains)
           ok == \A i \in 1..Len(all) : all[i].success
       IN /\ calls' = Append(calls, [target |-> "s3", domain |-> result.domain,
                                     bucket |-> result.bucket])
          /\ results' = all
          /\ idx' = idx + 1
          /\ printed' = IF ~last THEN printed
                        ELSE Append(printed, IF ok THEN "All domains deployed successfully."
                                             ELSE "Failed domains")
          /\ exit_code' = IF ~last THEN Running ELSE IF ok THEN 0 ELSE 1
          /\ pc' = IF last THEN "exit" ELSE "deploying"
    /\ UNCHANGED <<args, config, ucall, uout>>

NextDeploy == DeployMain \/ DeployStep

SpecDeploy == InitDeploy /\ [][NextDeploy]_vars

(***************************************************************************)
(* domains/hr/org_structure.py : resolve_org_hierarchy                     *)
(***************************************************************************)
MaxEmployees == 3     \* rows of the employee table

EmployeeIds == <<"E1", "E2", "E3", "E4", "E5", "E6">>
Departments == <<"D1", "D2", "D3", "D4", "D5", "D6">>
JobTitles == <<"T1", "T2", "T3", "T4", "T5", "T6">>
FormerManager == "E0"           \* a manager_id that is no row of the table
NoManager == "<NaN>"            \* a missing manager_id

\* the employee ids of a table of n rows: one per row, or the last row
\* repeating the id of the first
IdAssignments(n) ==
    {[k \in 1..n |-> EmployeeIds[k]]} \cup
    (IF n >= 2 THEN {[k \in 1..n |-> IF k = n THEN EmployeeIds[1] ELSE EmployeeIds[k]]}
     ELSE {})

\* the department and job_title columns: both there, or one of them not
OrgColumnCases == {<<TRUE, TRUE>>, <<FALSE, TRUE>>, <<TRUE, FALSE>>}

ManagerIds(n) == {EmployeeIds[j] : j \in 1..n} \cup {FormerManager, NoManager}

EmployeeTable(n, ids, m, a, cols) ==
    [k \in 1..n |-> [employee_id |-> ids[k],
                     manager_id |-> m[k],
                     is_active |-> a[k],
                     department |-> IF cols[1] THEN Departments[k] ELSE NoColumn,
                     job_title |-> IF cols[2] THEN JobTitles[k] ELSE NoColumn]]

\* _build_adjacency(employees): manager_id -> list of employee_id, in row order
_build_adjacency(employees) ==
    LET managers == {employees[k].manager_id : k \in 1..Len(employees)} \ {NoManager}
        ids(rows) == [k \in 1..Len(rows) |-> rows[k].employee_id]
    IN [mgr \in managers |->
           ids(SelectSeq(employees, LAMBDA row : row.manager_id = mgr))]

_classify_org_level(depth) ==
    CASE depth = 0 -> "CEO"
      [] depth = 1 -> "C-Suite"
      [] depth = 2 -> "VP"
      [] depth = 3 -> "Director"
      [] depth = 4 -> "Manager"
      [] depth = 5 -> "Lead"
      [] depth > 5 /\ depth <= 8 -> "IC"
      [] OTHER -> "Deep IC"

RECURSIVE _walk_tree(_, _, _)
_walk_tree(node_id, adjacency, depth) ==
    LET children == IF node_id \in DOMAIN adjacency THEN adjacency[node_id] ELSE <<>>
    IN [employee_id |-> node_id,
        depth |-> depth,
        org_level |-> _classify_org_level(depth),
        direct_reports |-> Len(children),
        children |-> [i \in 1..Len(children) |->
                         _walk_tree(children[i], adjacency, depth + 1)]]

RECURSIVE _count_total(_)
_count_total(node) ==
    LET sum[i \in 0..Len(node.children)] ==
            IF i = 0 THEN 0 ELSE sum[i - 1] + _count_total(node.children[i])
    IN 1 + sum[Len(node.children)]

RECURSIVE _flatten(_)
_flatten(node) ==
    LET rows[i \in 0..Len(node.children)] ==
            IF i = 0
            THEN <<[employee_id |-> node.employee_id,
                    depth |-> node.depth,
                    org_level |-> node.org_level,
                    direct_reports |-> node.direct_reports,
                    total_reports |-> _count_total(node) - 1]>>
            ELSE rows[i - 1] \o _flatten(node.children[i])
    IN rows[Len(node.children)]

\* roots = all_employees - all_subordinates
OrgRoots(active, adjacency) ==
    {active[k].employee_id : k \in 1..Len(active)}
        \ UNION {{adjacency[mgr][i] : i \in 1..Len(adjacency[mgr])} : mgr \in DOMAIN adjacency}

\* the orders in which `for root in roots` can visit a set
RootOrders(roots) ==
    {q \in [1..Cardinality(roots) -> roots] :
        \A i, j \in 1..Cardinality(roots) : i # j => q[i] # q[j]}

\* _walk_tree never returns when a node is below itself: the interpreter
\* gives up with RecursionError. A tree without such a node is less deep
\* than the table has rows.
RECURSIVE WalkOverflows(_, _, _, _)
WalkOverflows(node_id, adjacency, depth, limit) ==
    \/ depth > limit
    \/ /\ node_id \in DOMAIN adjacency
       /\ \E i \in 1..Len(adjacency[node_id]) :
              WalkOverflows(adjacency[node_id][i], adjacency, depth + 1, limit)

\* active[["employee_id", "department", "job_title"]] needs the three columns
HasOrgColumns(active) ==
    \A k \in 1..Len(active) :
        active[k].department # NoColumn /\ active[k].job_title # NoColumn

\* result.merge(active[[...]], on="employee_id", how="left"): every flattened
\* row once per active row of its employee_id, in the order of the rows
RECURSIVE MergeLeft(_, _)
MergeLeft(result, active) ==
    IF result = <<>> THEN <<>>
    ELSE LET row == result[1]
             right == SelectSeq(active, LAMBDA r : r.employee_id = row.employee_id)
         IN [i \in 1..Len(right) |->
                [employee_id |-> row.employee_id,
                 depth |-> row.depth,
                 org_level |-> row.org_level,
                 direct_reports |-> row.direct_reports,
                 total_reports |-> row.total_reports,
                 department |-> right[i].department,
                 job_title |-> right[i].job_title]]
            \o MergeLeft(Tail(result), active)

\* resolve_org_hierarchy(employees), its roots visited in the given order
resolve_org_hierarchy(employees, order) ==
    LET active == SelectSeq(employees, LAMBDA row : row.is_active)
        adjacency == _build_adjacency(active)
        flat[i \in 0..Len(order)] ==
            IF i = 0 THEN <<>>
            ELSE flat[i - 1] \o _flatten(_walk_tree(order[i], adjacency, 0))
    IN IF \E i \in 1..Len(order) : WalkOverflows(order[i], adjacency, 0, Len(active))
       THEN [raised |-> "RecursionError", rows |-> <<>>]
       ELSE IF flat[Len(order)] = <<>>
       THEN [raised |-> "none", rows |-> <<>>]
       ELSE IF ~HasOrgColumns(active)
       THEN [raised |-> "KeyError", rows |-> <<>>]
       ELSE [raised |-> "none", rows |-> MergeLeft(flat[Len(order)], active)]

InitOrg ==
    \E n \in 0..MaxEmployees :
        \E ids \in IdAssignments(n), m \in [1..n -> ManagerIds(n)],
           a \in [1..n -> BOOLEAN], cols \in OrgColumnCases :
            UnitStart({[op |-> "resolve_org_hierarchy",
                        employees |-> EmployeeTable(n, ids, m, a, cols)]})

\* resolve_org_hierarchy(employees): a set is iterated in an order the build picks
CallResolveOrgHierarchy ==
    LET active == SelectSeq(ucall.employees, LAMBDA row : row.is_active) IN
    \E order \in RootOrders(OrgRoots(active, _build_adjacency(active))) :
        UnitApply("resolve_org_hierarchy", resolve_org_hierarchy(ucall.employees, order))

SpecOrg == InitOrg /\ [][CallResolveOrgHierarchy]_vars

(***************************************************************************)
(* run.py : validate_all over arbitrary validate() results                 *)
(***************************************************************************)
MaxStubs == 2         \* domains of a registry whose validate() is a stub

StubNames == <<"d1", "d2", "d3", "d4">>

NoKey == "<no key>"

\* the dict a validate() returns, by the keys the match statement looks at:
\* status, message, reason, and a "valid" entry among the remaining keys
ResultDicts ==
    [status : {"ok", "error", "skipped", "warning", NoKey},
     message : {"bad rows", NoKey},
     reason : {"no source", NoKey},
     valid : {"False", NoKey}]

StubRegistries == UNION {[1..n -> ResultDicts] : n \in 0..MaxStubs}

\* the match statement with a skipped case that asks for no reason
validate_all_case_any_skipped(name, result) ==
    IF result.status = "ok"
    THEN <<[domain |-> name, valid |-> result.valid = NoKey, error |-> NoKey]>>
    ELSE IF result.status = "error" /\ result.message # NoKey
    THEN <<[domain |-> name, valid |-> FALSE, error |-> result.message]>>
    ELSE IF result.status = "skipped"
    THEN <<>>
    ELSE <<[domain |-> name, valid |-> FALSE, error |-> "Unknown validation result"]>>

\* the match statement of validate_all: {"domain": name, "valid": True, **rest}
\* lets an entry of rest replace valid
validate_all_case(name, result) ==
    IF result.status = "ok"
    THEN <<[domain |-> name, valid |-> result.valid = NoKey, error |-> NoKey]>>
    ELSE IF result.status = "error" /\ result.message # NoKey
    THEN <<[domain |-> name, valid |-> FALSE, error |-> result.message]>>
    ELSE IF result.status = "skipped" /\ result.reason # NoKey
    THEN <<>>
    ELSE <<[domain |-> name, valid |-> FALSE, error |-> "Unknown validation result"]>>

\* validate_all() on the registry, then the exit decision of main()
validate_all(registry) ==
    LET rows[i \in 0..Len(registry)] ==
            IF i = 0 THEN <<>>
            ELSE rows[i - 1] \o validate_all_case(StubNames[i], registry[i])
        out == rows[Len(registry)]
    IN [results |-> out,
        exit_code |-> IF \A i \in 1..Len(out) : out[i].valid THEN 0 ELSE 1]

ValidateAllCalls == {[op |-> "validate_all", registry |-> r] : r \in StubRegistries}

InitValidateAll == UnitStart(ValidateAllCalls)

\* main() with --validate on the stub registry
CallValidateAll == UnitApply("validate_all", validate_all(ucall.registry))

SpecValidateAll == InitValidateAll /\ [][CallValidateAll]_vars

(***************************************************************************)
(* validation/reporters.py : build_validation_report                       *)
(***************************************************************************)
ReportFormats == {"table", "json", "summary"}

\* the loop over expectations: every exception becomes a result entry with
\* success False, and the loop goes on
ReportResults(lib, ge_df, expectations) ==
    [i \in 1..Len(expectations) |->
        LET result == Evaluate(lib, ge_df, expectations[i], i)
        IN [expectation |-> expectations[i].expectation_type,
            success |-> result = "success",
            error |-> result \notin {"success", "failure"}]]

\* _to_json, _to_summary and _to_table render the same result list: the
\* number of entries and the number of entries with success True
build_validation_report(lib, domain, ge_df, expectations, output_format) ==
    LET report == ReportResults(lib, ge_df, expectations)
    IN [raised |-> "none",
        format |-> IF output_format \in {"json", "summary"} THEN output_format ELSE "table",
        domain |-> domain,
        total |-> Len(report),
        passed |-> Cardinality({i \in 1..Len(report) : report[i].success}),
        results |-> report]

ReportCalls ==
    UNION {{[op |-> "build_validation_report", domain |-> d, df |-> ds, lib |-> l,
             output_format |-> f] :
               ds \in Datasets(build_suite_for_domain(d)),
               l \in Libraries(build_suite_for_domain(d)),
               f \in ReportFormats} : d \in ExpectationDomains}

InitReport == UnitStart(ReportCalls)

\* build_validation_report(domain, ge_df, build_suite_for_domain(domain), output_format)
CallBuildValidationReport ==
    UnitApply("build_validation_report",
              build_validation_report(ucall.lib, ucall.domain, ucall.df,
                                      build_suite_for_domain(ucall.domain),
                                      ucall.output_format))

SpecReport == InitReport /\ [][CallBuildValidationReport]_vars

(***************************************************************************)
(* domains/sales/transform.py : _normalize_record_type, _parse_currency,   *)
(* clean_sales_records on frames with the columns record_type, amount and, *)
(* optionally, amount_raw (whole currency units)                           *)
(***************************************************************************)
CURRENCY_SYMBOLS == <<[symbol |-> "$", code |-> "USD"], [symbol |-> "EUR-sign", code |-> "EUR"],
                      [symbol |-> "GBP-sign", code |-> "GBP"], [symbol |-> "JPY-sign", code |-> "JPY"]>>

DigitValue == [c \in {"0", "1", "2"} |-> IF c = "0" THEN 0 ELSE IF c = "1" THEN 1 ELSE 2]

\* an amount_raw cell: a number, or a string given by its characters
RawNumber(v) == [is_number |-> TRUE, value |-> v, text |-> <<>>]
RawString(chars) == [is_number |-> FALSE, value |-> 0, text |-> chars]
NoRaw == [is_number |-> FALSE, value |-> 0, text |-> <<"<no column>">>]

RawAmounts == {RawString(<<"$", "2">>), RawString(<<"-", "1">>), RawNumber(0),
               RawString(<<"x">>)}

RecordTypes == {"sale", "return", "adjustment", "void", ""}

RecordAmounts == {-1, 1}

SalesRecordsWith(raws) ==
    UNION {[1..n -> [record_type : RecordTypes, amount : RecordAmounts, amount_raw : raws]] :
              n \in 0..MaxSalesRows}

SalesRecords == SalesRecordsWith({NoRaw}) \cup SalesRecordsWith(RawAmounts)

\* _normalize_record_type(record): the record with its amount and direction
_normalize_record_type(record) ==
    LET base == [record_type |-> record.record_type, amount |-> record.amount,
                 amount_raw |-> record.amount_raw, direction |-> "unknown",
                 currency |-> NoColumn]
    IN IF record.record_type = "sale"
       THEN [base EXCEPT !.amount = Abs(record.amount), !.direction = "credit"]
       ELSE IF record.record_type = "return"
       THEN [base EXCEPT !.amount = 0 - Abs(record.amount), !.direction = "debit"]
       ELSE IF record.record_type = "adjustment"
       THEN [base EXCEPT !.direction = IF record.amount >= 0 THEN "credit" ELSE "debit"]
       ELSE IF record.record_type = "void"
       THEN [base EXCEPT !.amount = 0, !.direction = "void"]
       ELSE IF record.record_type = ""
       THEN [base EXCEPT !.record_type = "unknown"]
       ELSE base

\* float(text): an optional sign followed by digits, anything else is a ValueError
ParseFloat(chars) ==
    LET negative == Len(chars) > 0 /\ chars[1] = "-"
        body == IF negative THEN Tail(chars) ELSE chars
        wellformed == Len(body) > 0 /\ \A i \in 1..Len(body) : body[i] \in DOMAIN DigitValue
        number[i \in 0..Len(body)] ==
            IF i = 0 THEN 0
            ELSE number[i - 1] * 10
                 + (IF body[i] \in DOMAIN DigitValue THEN DigitValue[body[i]] ELSE 0)
    IN [raised |-> IF wellformed THEN "none" ELSE "ValueError",
        value |-> IF ~wellformed THEN 0
                  ELSE IF negative THEN 0 - number[Len(body)] ELSE number[Len(body)]]

Without(chars, dropped) == SelectSeq(chars, LAMBDA c : c \notin dropped)

\* _parse_currency(amount_str): the amount and the currency code
_parse_currency(amount_str) ==
    LET found == {k \in 1..Len(CURRENCY_SYMBOLS) :
                     \E i \in 1..Len(amount_str.text) :
                         amount_str.text[i] = CURRENCY_SYMBOLS[k].symbol}
        first == CHOOSE k \in found : \A j \in found : k <= j
        parsed == IF found # {}
                  THEN ParseFloat(Without(amount_str.text, {CURRENCY_SYMBOLS[first].symbol, ","}))
                  ELSE ParseFloat(Without(amount_str.text, {","}))
    IN IF amount_str.is_number
       THEN [raised |-> "none", amount |-> amount_str.value, currency |-> "USD"]
       ELSE [raised |-> parsed.raised, amount |-> parsed.value,
             currency |-> IF found # {} THEN CURRENCY_SYMBOLS[first].code ELSE "USD"]

\* clean_sales_records(df): the amount parsed from amount_raw replaces the
\* normalized amount; the closing console line reads df['direction'], which a
\* frame built from no records does not have
clean_sales_records(df) ==
    LET normalized == [i \in 1..Len(df) |-> _normalize_record_type(df[i])]
        has_raw == Len(df) > 0 /\ df[1].amount_raw # NoRaw
        parsed == [i \in 1..Len(df) |-> _parse_currency(df[i].amount_raw)]
        replaced == [i \in 1..Len(df) |->
                        [normalized[i] EXCEPT !.amount = parsed[i].amount,
                                              !.currency = parsed[i].currency]]
    IN IF has_raw /\ \E i \in 1..Len(df) : parsed[i].raised # "none"
       THEN [raised |-> "ValueError", rows |-> <<>>]
       ELSE IF Len(df) = 0 THEN [raised |-> "KeyError", rows |-> <<>>]
       ELSE [raised |-> "none", rows |-> IF has_raw THEN replaced ELSE normalized]

CleanCalls == {[op |-> "clean_sales_records", df |-> d] : d \in SalesRecords}

InitClean == UnitStart(CleanCalls)

\* clean_sales_records(df)
CallCleanSalesRecords ==
    UnitApply("clean_sales_records", clean_sales_records(ucall.df))

SpecClean == InitClean /\ [][CallCleanSalesRecords]_vars

(***************************************************************************)
(* finance/transform.py : _normalize_amounts.  A cell of the raw frame is  *)
(* missing or holds the double nearest to its decimal amount, given in     *)
(* units of 0.005 as in the journal model; DEBIT_CREDIT_THRESHOLD is the   *)
(* double nearest to two units.                                            *)
(***************************************************************************)
MaxEntries == 2       \* rows of the frame handed to _normalize_amounts

DEBIT_CREDIT_THRESHOLD == 2

MissingAmount == [missing |-> TRUE, units |-> 0]
Amount(u) == [missing |-> FALSE, units |-> u]

EntryAmounts ==
    {<<Amount(2), MissingAmount>>, <<Amount(0), Amount(2)>>, <<Amount(1), Amount(0)>>,
     <<Amount(3), Amount(0)>>, <<Amount(0), Amount(4)>>, <<Amount(2), Amount(2)>>,
     <<Amount(6), Amount(4)>>, <<Amount(14), Amount(12)>>}

EntryRows ==
    {[journal_id |-> JournalIds[j], debit |-> a[1], credit |-> a[2]] :
        j \in 1..Len(LineJournalIds), a \in EntryAmounts}

\* fillna(0.0)
FillZero(cell) == IF cell.missing THEN Double(0, 0) ELSE FromUnits(cell.units)

\* one row after the first three statements: debit and credit filled and
\* rounded, net_amount their difference in doubles
NetRow(journal_id, debit, credit) ==
    [journal_id |-> journal_id, debit |-> debit.k, credit |-> credit.k,
     net_amount |-> DoubleSub(debit, credit)]

RoundedRow(row) ==
    NetRow(row.journal_id, DoubleRound2(FillZero(row.debit)),
           DoubleRound2(FillZero(row.credit)))

\* groupby("journal_id")["net_amount"].sum() for one journal
NetAmounts(rows) == [i \in 1..Len(rows) |-> rows[i].net_amount]

Imbalance(rounded, id) ==
    GroupSum(NetAmounts(SelectSeq(rounded, LAMBDA row : row.journal_id = id)))

\* imbalance[imbalance.abs() > DEBIT_CREDIT_THRESHOLD]
Unbalanced(rounded) ==
    {id \in {rounded[i].journal_id : i \in 1..Len(rounded)} :
        DoubleLess(FromUnits(DEBIT_CREDIT_THRESHOLD), DoubleAbs(Imbalance(rounded, id)))}

\* the frame as returned (debit and credit in units again: after round(2)
\* each is the double nearest to a whole number of hundredths; net_amount is
\* their difference in doubles), the journals whose compensated net sum
\* exceeds the threshold, and the number the warning prints
NormalizeResult(rounded, unbalanced) ==
    [rows |-> rounded, unbalanced |-> unbalanced, warned |-> Cardinality(unbalanced)]

NormalizeRounded(rounded) == NormalizeResult(rounded, Unbalanced(rounded))

_normalize_amounts(df) == NormalizeRounded([i \in 1..Len(df) |-> RoundedRow(df[i])])

InitNormalize ==
    \E n \in 0..MaxEntries :
        \E df \in [1..n -> EntryRows] :
            UnitStart({[op |-> "_normalize_amounts", df |-> df]})

\* _normalize_amounts(df)
CallNormalizeAmounts == UnitApply("_normalize_amounts", _normalize_amounts(ucall.df))

SpecNormalize == InitNormalize /\ [][CallNormalizeAmounts]_vars

(***************************************************************************)
(* finance/accounts.py : _classify_category                                *)
(***************************************************************************)
\* match code[:1]: the values of AccountCategory
_classify_category(code) ==
    LET prefix == IF code # <<>> THEN SubSeq(code, 1, 1) ELSE <<>>
    IN CASE prefix = <<"1">> -> "asset"
         [] prefix = <<"2">> -> "liability"
         [] prefix = <<"3">> -> "equity"
         [] prefix = <<"4">> -> "revenue"
         [] prefix \in {<<"5">>, <<"6">>, <<"7">>, <<"8">>} -> "expense"
         [] OTHER -> "expense"

CategoryCalls == {[op |-> "_classify_category", code |-> c] : c \in AccountCodes}

InitCategory == UnitStart(CategoryCalls)

\* _classify_category(code)
CallClassifyCategory == UnitApply("_classify_category", _classify_category(ucall.code))

SpecCategory == InitCategory /\ [][CallClassifyCategory]_vars

(***************************************************************************)
(* SpecUnit: one function applied to one bounded input                     *)
(***************************************************************************)
\* the library's answer to validating None matters to logistics alone
LibsOf(d) == IF d = "logistics" THEN PanderaNone ELSE {"TypeError"}

InitUnit ==
    \E d \in DomainNames :
        \/ \E s \in SourcesOf(d), l \in LibsOf(d) :
               UnitStart({[op |-> "validate", domain |-> d, src |-> s, lib |-> l]})
        \/ /\ d \in SchemaDomains
           /\ \E f \in FramesOf(d) :
                  UnitStart({[op |-> "validate_dataframe", domain |-> d,
                              src |-> [kind |-> "files", frame |-> f], lib |-> "TypeError"]})

\* <domain>.validate()
CallValidate ==
    /\ pc = "unit"
    /\ ucall.op = "validate"
    /\ ~uout.done
    /\ uout' = [done |-> TRUE, val |-> DomainValidate(ucall.domain, ucall.src, ucall.lib)]
    /\ UNCHANGED <<args, pc, config, idx, calls, results, printed, exit_code, ucall>>

\* validate_dataframe(df, schema)
CallValidateDataframe ==
    /\ pc = "unit"
    /\ ucall.op = "validate_dataframe"
    /\ ~uout.done
    /\ uout' = [done |-> TRUE, val |-> validate_dataframe(ucall.src.frame, SchemaOf(ucall.domain))]
    /\ UNCHANGED <<args, pc, config, idx, calls, results, printed, exit_code, ucall>>

NextUnit ==
    \/ CallValidate
    \/ CallValidateDataframe

SpecUnit == InitUnit /\ [][NextUnit]_vars

(***************************************************************************)
(* Properties                                                              *)
(***************************************************************************)
ModeOf(d) == IF config[d] = Absent THEN "full" ELSE config[d]

KnownModes == {"full", "incremental", "dry-run"}

InDefaultRun == ~args.validate /\ args.domain \in {NoDomain, ""} /\ pc \in {"run_all", "done"}

CallsTo(fn, d) == {i \in 1..Len(calls) : calls[i].fn = fn /\ calls[i].domain = d}

HasPrinted(m) == \E i \in 1..Len(printed) : printed[i] = m

\* C1: with --validate, validate() of each of the ten registered domains is
\* invoked with no arguments in registry order, every invocation returns a
\* result, and the pass/fail table is printed after all ten were validated.
C1_ValidateAllCompletes ==
    (args.validate /\ pc = "done") =>
        /\ Len(calls) = Len(DOMAINS)
        /\ \A i \in 1..Len(calls) :
             /\ calls[i].fn = "validate"
             /\ calls[i].domain = DOMAINS[i]
             /\ calls[i].outcome = "returned"
        /\ HasPrinted(Say("Validation Results", ""))

\* C2: with --validate the process exits 1 exactly when some domain's
\* validation result is invalid, exits 0 when every reported result is valid,
\* and never invokes a domain's run().
C2_ValidateExitCode ==
    (args.validate /\ pc = "done") =>
        /\ exit_code = 1 <=> (\E i \in 1..Len(results) : ~results[i].valid)
        /\ AllValid(results) => exit_code = 0
        /\ \A i \in 1..Len(calls) : calls[i].fn # "run"

\* C3: in the default run an exception raised inside one domain's run() does
\* not keep the domains after it in DOMAINS order from being run.
C3_ExceptionIsDomainLocal ==
    (InDefaultRun /\ pc = "done") =>
        \A i \in 1..Len(calls) :
            calls[i].outcome = "raised" =>
                \A j \in (DomainIndex(calls[i].domain) + 1)..Len(DOMAINS) :
                    (/\ \A m \in (DomainIndex(calls[i].domain) + 1)..j :
                           ModeOf(DOMAINS[m]) \in KnownModes
                     /\ ModeOf(DOMAINS[j]) \in {"full", "incremental"})
                    => CallsTo("run", DOMAINS[j]) # {}

\* the domains among the first n of DOMAINS whose mode asks for a run
ToRun(n) ==
    SelectSeq(SubSeq(DOMAINS, 1, n), LAMBDA d : ModeOf(d) \in {"full", "incremental"})

\* the command line asks for the default run
DefaultRunAsked == ~args.validate /\ args.domain \in {NoDomain, ""}

\* C4: the default run processes the domains one at a time in DOMAINS order,
\* each at most once: full (or no configured mode) calls run() with no
\* arguments, incremental calls run(incremental=True), dry-run calls neither
\* run() nor validate() and the loop goes on with the next domain.  So when
\* every configured mode is one of the three and the process has ended, the
\* calls made are, in order, one run() per domain of mode full or
\* incremental, the flag set for incremental alone, unless a run() raised.
C4_DefaultRunOrder ==
    (/\ DefaultRunAsked
     /\ pc = "done"
     /\ \A d \in DomainNames : ModeOf(d) \in KnownModes
     /\ \A i \in 1..Len(calls) : calls[i].outcome = "returned") =>
        /\ Len(calls) = Len(ToRun(Len(DOMAINS)))
        /\ \A i \in 1..Len(calls) :
             /\ calls[i].fn = "run"
             /\ calls[i].domain = ToRun(Len(DOMAINS))[i]
             /\ calls[i].incremental = (ModeOf(calls[i].domain) = "incremental")

\* C5: for every registered domain whose configured mode is incremental, the
\* default run executes the pipeline with incremental ingestion: run()
\* accepts incremental=True and hands the flag to its ingest step.
C5_IncrementalReachesIngest ==
    InDefaultRun =>
        \A i \in 1..Len(calls) :
            ModeOf(calls[i].domain) = "incremental" =>
                /\ calls[i].exc # "TypeError"
                /\ calls[i].ingest_incremental

\* the first domain of DOMAINS whose configured mode is no known one
FirstUnknownMode ==
    CHOOSE i \in 1..Len(DOMAINS) :
        /\ ModeOf(DOMAINS[i]) \notin KnownModes
        /\ \A j \in 1..(i - 1) : ModeOf(DOMAINS[j]) \in KnownModes

\* C6: in the default run a domain whose configured mode is none of full,
\* incremental, dry-run makes the CLI print a message and exit 1 at that
\* domain; neither its run() nor the run() of any later domain is invoked.
C6_UnknownModeExits ==
    (/\ DefaultRunAsked
     /\ \E d \in DomainNames : ModeOf(d) \notin KnownModes) =>
        /\ \A k \in 1..Len(calls) : DomainIndex(calls[k].domain) < FirstUnknownMode
        /\ (pc = "done" /\ \A k \in 1..Len(calls) : calls[k].outcome = "returned") =>
             /\ exit_code = 1
             /\ HasPrinted(Say("Unknown mode", DOMAINS[FirstUnknownMode]))

\* C7: --domain <name> with a name that is not a key of DOMAINS prints a
\* message and exits 1 without invoking run() or validate() of any domain.
C7_UnknownDomainExits ==
    (args.domain # NoDomain /\ args.domain \notin DomainNames) =>
        /\ calls = <<>>
        /\ pc = "done" =>
             /\ exit_code = 1
             /\ HasPrinted(Say("Unknown domain", args.domain))

\* C8: --domain <name> for a registered name, without --validate, invokes
\* exactly that domain's run(), once and with default arguments, and no
\* other domain's run() or validate().
C8_SingleDomainRun ==
    (~args.validate /\ args.domain \in DomainNames) =>
        \/ pc \in {"import", "main"} /\ calls = <<>>
        \/ /\ pc = "done"
           /\ Len(calls) = 1
           /\ calls[1].fn = "run"
           /\ calls[1].domain = args.domain
           /\ ~calls[1].incremental

\* C9: for each domain, when its source files are missing, validate() raises
\* nothing and returns status 'error' with a message, never status 'ok'.
C9_MissingSourceIsError ==
    (uout.done /\ ucall.op = "validate" /\ SourceMissing(ucall.src)) =>
        /\ uout.val.outcome = "returned"
        /\ uout.val.status = "error"
        /\ uout.val.message # NoMessage

\* what a table violates, counted independently of the failure-case list:
\* columns that are not there, null cells where none may be, repeated cells
\* of a unique column, cells failing a check, repeated cells under a check
\* of the whole column, cells of the lines failing a check of the schema
SpecOfColumn(schema, c) ==
    schema.columns[CHOOSE i \in 1..Len(schema.columns) : schema.columns[i].name = c]

MissingColumns(schema, df) == SchemaColumnSet(schema) \ df.cols

PresentCells(schema, df) ==
    (SchemaColumnSet(schema) \cap df.cols) \X (1..Len(df.rows))

NullCells(schema, df) ==
    {x \in PresentCells(schema, df) :
        ~SpecOfColumn(schema, x[1]).nullable /\ df.rows[x[2]][x[1]] = NaN}

DupCells(schema, df) ==
    {x \in PresentCells(schema, df) :
        /\ SpecOfColumn(schema, x[1]).unique
        /\ \E j \in 1..Len(df.rows) : j # x[2] /\ df.rows[j][x[1]] = df.rows[x[2]][x[1]]}

BadCells(schema, df) ==
    {y \in PresentCells(schema, df) \X (1..2) :
        LET col == SpecOfColumn(schema, y[1][1])
            cell == df.rows[y[1][2]][y[1][1]]
        IN /\ y[2] <= Len(col.checks)
           /\ col.checks[y[2]].kind # "is_unique"
           /\ cell # NaN
           /\ ~Passes(col.checks[y[2]], cell)}

RepeatedColumns(schema, df) ==
    {c \in SchemaColumnSet(schema) \cap df.cols :
        /\ \E i \in 1..Len(SpecOfColumn(schema, c).checks) :
               SpecOfColumn(schema, c).checks[i].kind = "is_unique"
        /\ \E j, k \in 1..Len(df.rows) :
               j # k /\ df.rows[j][c] # NaN /\ df.rows[j][c] = df.rows[k][c]}

\* the lines without a debit or credit amount, cell by cell; a table without
\* the debit or the credit column fails the check once
LineCells(schema, df) ==
    IF schema.checks = <<>> THEN {}
    ELSE IF ~({"debit", "credit"} \subseteq df.cols) THEN {<<"None", 0>>}
    ELSE {x \in PresentCells(schema, df) :
             LET given(c) == IF df.rows[x[2]][c] = NaN THEN 0
                             ELSE NumberOf(df.rows[x[2]][c])
             IN /\ df.rows[x[2]][x[1]] # NaN
                /\ given("debit") + given("credit") <= 0}

ViolationCount(schema, df) ==
    Cardinality(MissingColumns(schema, df)) + Cardinality(NullCells(schema, df))
    + Cardinality(DupCells(schema, df)) + Cardinality(BadCells(schema, df))
    + Cardinality(RepeatedColumns(schema, df)) + Cardinality(LineCells(schema, df))

\* C10: validate_dataframe never raises on a schema violation; it returns
\* valid False with one description per failure case, each naming column,
\* check and failing value, and valid True with no errors when the frame
\* violates nothing.
C10_ValidateDataframeCollects ==
    (uout.done /\ ucall.op = "validate_dataframe") =>
        LET df == ucall.src.frame
            schema == SchemaOf(ucall.domain)
            r == uout.val
        IN /\ r.raised = "none"
           /\ r.valid <=> ViolationCount(schema, df) = 0
           /\ r.valid => r.errors = <<>>
           /\ Len(r.errors) = ViolationCount(schema, df)
           /\ \A c \in MissingColumns(schema, df) :
                  \E i \in 1..Len(r.errors) :
                      r.errors[i] = [column |-> "None", check |-> "column_in_dataframe",
                                     failure_case |-> c]
           /\ \A x \in NullCells(schema, df) \cup DupCells(schema, df) :
                  \E i \in 1..Len(r.errors) :
                      /\ r.errors[i].column = x[1]
                      /\ r.errors[i].failure_case = df.rows[x[2]][x[1]]
           /\ \A y \in BadCells(schema, df) :
                  \E i \in 1..Len(r.errors) :
                      /\ r.errors[i].column = y[1][1]
                      /\ r.errors[i].check =
                             SpecOfColumn(schema, y[1][1]).checks[y[2]].check
                      /\ r.errors[i].failure_case = df.rows[y[1][2]][y[1][1]]

C10_Witness ==
    /\ uout.done /\ ucall.op = "validate_dataframe" /\ ucall.domain = "sales"
    /\ ~uout.val.valid
    /\ Len(uout.val.errors) >= 3
    /\ Len(ucall.src.frame.rows) = 2
    /\ ucall.src.frame.cols = SchemaColumnSet(SALES_SCHEMA)

\* sums taken over the lines of one journal id, straight from a table
RECURSIVE UnitsOf(_, _)
UnitsOf(ls, side) == IF ls = <<>> THEN 0 ELSE Head(ls)[side] + UnitsOf(Tail(ls), side)

DebitOf(ls, id) == UnitsOf(SelectSeq(ls, LAMBDA l : l.journal_id = id), "debit")

CreditOf(ls, id) == UnitsOf(SelectSeq(ls, LAMBDA l : l.journal_id = id), "credit")

IdsOf(ls) == {ls[i].journal_id : i \in 1..Len(ls)}

SeqToSet(q) == {q[i] : i \in 1..Len(q)}

\* C11: process_journal_entries returns an output in which every journal_id
\* group has total debit equal to total credit within the 0.01 tolerance (the
\* decimal totals differ by no more than 0.01); an input group whose totals
\* differ by more than the tolerance has no line and no reversal in the
\* output and its id is recorded and named by the skipped-journals warning;
\* every input group is either in the output or recorded, never both.
C11_OutputJournalsBalanced ==
    (uout.done /\ ucall.op = "process_journal_entries" /\ ucall.txns # <<>>) =>
        LET in == ucall.txns
            out == uout.val.processed
        IN /\ uout.val.raised = "none"
           /\ \A id \in IdsOf(out) : Abs(DebitOf(out, id) - CreditOf(out, id)) <= 2
           /\ \A id \in IdsOf(in) :
                /\ Abs(DebitOf(in, id) - CreditOf(in, id)) > 2 =>
                       /\ id \notin IdsOf(out)
                       /\ id \in SeqToSet(uout.val.errors)
                       /\ id \in SeqToSet(uout.val.warned)
                /\ (id \in IdsOf(out)) # (id \in SeqToSet(uout.val.errors))
                /\ DebitOf(in, id) = CreditOf(in, id) => id \in IdsOf(out)

ProducedIds(df) ==
    {df[i].product_id : i \in {k \in 1..Len(df) : df[k].record_type = "production"}}

HasBomRows(bom, p) == \E i \in 1..Len(bom) : bom[i].parent_id = p

\* C12: in resolve_bill_of_materials a product with no rows in the BOM master
\* is logged once and skipped, and the BOMs of all other products of the
\* production data are still resolved and returned.
C12_MissingBomSkipped ==
    (uout.done /\ ucall.op = "resolve_bill_of_materials") =>
        \A p \in ProducedIds(ucall.df) :
            ~HasBomRows(ucall.bom, p) =>
                /\ Cardinality({i \in 1..Len(uout.val.warnings) : uout.val.warnings[i] = p}) = 1
                /\ \A i \in 1..Len(uout.val.all_boms) :
                     uout.val.all_boms[i].finished_product_id # p
                /\ \A q \in ProducedIds(ucall.df) :
                     HasBomRows(ucall.bom, q) =>
                        /\ uout.val.raised = "none"
                        /\ \E i \in 1..Len(uout.val.all_boms) :
                             uout.val.all_boms[i].finished_product_id = q

\* some two rows of the frame carry the same values in all key columns
SharesKey(df, columns) ==
    \E i \in 1..Len(df), j \in 1..Len(df) :
        i < j /\ \A c \in SeqToSet(columns) : df[i][c] = df[j][c]

\* C13: validate_unique returns valid False with a nonzero duplicate count in
\* its error when at least two rows share the key columns' values, and valid
\* True with an empty error list otherwise.
C13_ValidateUnique ==
    (uout.done /\ ucall.op = "validate_unique") =>
        IF SharesKey(ucall.df, ucall.columns)
        THEN /\ ~uout.val.valid
             /\ Len(uout.val.errors) = 1
             /\ uout.val.errors[1].n > 0
        ELSE /\ uout.val.valid
             /\ uout.val.errors = <<>>

C13_Witness ==
    /\ uout.done /\ ucall.op = "validate_unique"
    /\ ucall.columns = <<"k1", "k2">>
    /\ Len(ucall.df) = 3
    /\ ucall.df[1].k1 = ucall.df[2].k1 /\ ucall.df[1].k2 # ucall.df[2].k2
    /\ ucall.df[1].k1 = ucall.df[3].k1 /\ ucall.df[1].k2 = ucall.df[3].k2
    /\ ~uout.val.valid
    /\ uout.val.errors[1].n = 2

\* C14: writing a table with write_output as csv or parquet and reading the
\* written file back gives a table with the same number of rows and the same
\* set of columns.
C14_RoundTrip ==
    (uout.done /\ ucall.op = "write_output" /\ ucall.fmt \in {"csv", "parquet"}) =>
        /\ uout.val.write.raised = "none"
        /\ uout.val.read.raised = "none"
        /\ Len(uout.val.read.rows) = Len(ucall.df.rows)
        /\ SeqToSet(uout.val.read.cols) = {<<c, 0>> : c \in SeqToSet(ucall.df.cols)}

\* the statement category of each leading digit
CategoryOfDigit ==
    "1" :> "asset" @@ "2" :> "liability" @@ "3" :> "equity" @@ "4" :> "revenue"
    @@ "5" :> "cost_of_goods" @@ "6" :> "operating_expense" @@ "7" :> "other_income"
    @@ "8" :> "other_expense" @@ "9" :> "intercompany"

\* C15: classify_account_type is a total function of the first character of
\* the account code: the digits 1 to 9 give asset, liability, equity, revenue,
\* cost_of_goods, operating_expense, other_income, other_expense and
\* intercompany; every other code, the empty string included, is unclassified.
\* "1000" is an asset account and "4000" a revenue account.
C15_ClassifyAccountType ==
    (uout.done /\ ucall.op = "classify_account_type") =>
        LET code == ucall.account_code IN
        /\ uout.val =
             IF code # <<>> /\ code[1] \in DOMAIN CategoryOfDigit
             THEN CategoryOfDigit[code[1]]
             ELSE "unclassified"
        /\ code = <<"1", "0", "0", "0">> => uout.val = "asset"
        /\ code = <<"4", "0", "0", "0">> => uout.val = "revenue"

C15_Witness ==
    /\ uout.done /\ ucall.op = "classify_account_type"
    /\ ucall.account_code = <<"4", "0", "0", "0">>
    /\ uout.val = "revenue"

\* C16: a domain's run() is idempotent: after a second run on the unchanged
\* inputs the output artifacts are those the first run left (the second run
\* replaces outputs, it adds none); the same of the export stage of the run,
\* write_sales_output, called twice on the unchanged tables.
C16_RunIdempotent ==
    (ucall.op \in {"run", "write_sales_output"} /\ uout.val.runs >= 2) =>
        uout.val.fs = uout.val.first

\* the partition files the latest write left
PartitionFiles ==
    {f \in uout.val.fs : f.path.run = uout.val.clock /\ f.path.dir = "transactions"}

\* write_sales_output took the partitioned branch
IsPartitionedWrite ==
    /\ ucall.op = "write_sales_output" /\ uout.val.runs >= 1
    /\ ucall.config.partitioned
    /\ HasRegionColumn(ucall.cleaned)

C18_ExpectationCounters ==
    (uout.done /\ ucall.op = "run_domain_expectations") =>
        LET suite == build_suite_for_domain(ucall.domain)
            r == uout.val
            nfailed == Len(r.failed_expectations)
        IN /\ r.raised = "none"
           /\ r.evaluated = [i \in 1..Len(suite) |-> i]
           /\ r.total = Len(suite)
           /\ r.passed + nfailed = r.total
           /\ r.status = "passed" <=> nfailed = 0
           /\ r.status = "warning" <=> (nfailed \in {1, 2} /\ ~ucall.strict)
           /\ r.status = "failed" <=> (nfailed > 2 \/ (nfailed > 0 /\ ucall.strict))
           /\ \A i \in 1..Len(suite) :
                suite[i].expectation_type \in ucall.lib.lacks =>
                    \E j \in 1..nfailed :
                        r.failed_expectations[j] =
                            [method |-> suite[i].expectation_type, text |-> "not supported"]

\* C19: deploy.main deploys from the main branch only: whenever GITHUB_REF is
\* not refs/heads/main it exits with code 1 before any domain is deployed to S3.
C19_DeployFromMainOnly ==
    (ucall.op = "deploy"
     /\ ~(ucall.env.set /\ ucall.env.value = <<"refs", "heads", "main">>)) =>
        /\ calls = <<>>
        /\ pc # "deploy" => exit_code = 1

ActiveIds(employees) ==
    {employees[k].employee_id : k \in {j \in 1..Len(employees) : employees[j].is_active}}

\* active employees without a manager or with a manager outside the active list
ExpectedRoots(employees) ==
    {employees[k].employee_id : k \in
        {j \in 1..Len(employees) :
            /\ employees[j].is_active
            /\ employees[j].manager_id \notin ActiveIds(employees)}}

\* the expected roots and the active employees below them, level by level
ExpectedNodes(employees) ==
    LET below[n \in 0..Len(employees)] ==
            IF n = 0 THEN ExpectedRoots(employees)
            ELSE below[n - 1] \cup
                 {employees[k].employee_id : k \in
                     {j \in 1..Len(employees) :
                         /\ employees[j].is_active
                         /\ employees[j].manager_id \in below[n - 1]}}
    IN below[Len(employees)]

\* the table has the department and job_title columns and one row per employee
WellFormedEmployees(employees) ==
    /\ \A k \in 1..Len(employees) :
           employees[k].department # NoColumn /\ employees[k].job_title # NoColumn
    /\ \A j, k \in 1..Len(employees) :
           employees[j].employee_id = employees[k].employee_id => j = k

\* C20: resolve_org_hierarchy takes as a root every active employee who is
\* nobody's subordinate or whose manager_id is not in the active employee
\* list; every such employee and every active employee reporting to them,
\* directly or indirectly, appears in the flattened result.
C20_OrgHierarchyCoversRoots ==
    (uout.done /\ ucall.op = "resolve_org_hierarchy"
     /\ WellFormedEmployees(ucall.employees)) =>
        /\ uout.val.raised = "none"
        /\ \A e \in ExpectedNodes(ucall.employees) :
               \E i \in 1..Len(uout.val.rows) : uout.val.rows[i].employee_id = e

\* the lines of one journal, in table order
LinesOf(ls, id) == SelectSeq(ls, LAMBDA l : l.journal_id = id)

HasAccrual(ls) == \E i \in 1..Len(ls) : ls[i].journal_type = "accrual"

LatestPosting(ls) ==
    CHOOSE d \in {ls[i].posting_date : i \in 1..Len(ls)} :
        \A i \in 1..Len(ls) : ls[i].posting_date <= d

\* the reversal lines the journal is to get: amounts swapped, one month later
ExpectedReversal(ls) ==
    [i \in 1..Len(ls) |->
        [journal_id |-> ls[i].journal_id,
         debit |-> ls[i].credit,
         credit |-> ls[i].debit,
         journal_type |-> "auto_reversal",
         posting_date |-> DateOffsetMonth(LatestPosting(ls)),
         description |-> "REVERSAL: entry"]]

Contiguous(ls, id) ==
    \A i, j, k \in 1..Len(ls) :
        (i < j /\ j < k /\ ls[i].journal_id = id /\ ls[k].journal_id = id) =>
            ls[j].journal_id = id

\* C21: for every balanced journal with at least one accrual line,
\* process_journal_entries appends directly after the journal's own lines one
\* reversal line per original line, with debit and credit swapped,
\* journal_type auto_reversal and a posting date one month after the
\* journal's latest posting date; a balanced journal without an accrual
\* line gets no reversal.
C21_AccrualReversal ==
    (uout.done /\ ucall.op = "process_journal_entries") =>
        \A id \in IdsOf(ucall.txns) :
            LET own == LinesOf(ucall.txns, id) IN
            Abs(DebitOf(ucall.txns, id) - CreditOf(ucall.txns, id)) < 2 =>
                /\ uout.val.raised = "none"
                /\ Contiguous(uout.val.processed, id)
                /\ LinesOf(uout.val.processed, id) =
                      IF HasAccrual(own) THEN own \o ExpectedReversal(own) ELSE own

RowsFor(rows, name) == SelectSeq(rows, LAMBDA r : r.domain = name)

FallsToWildcard(res) ==
    \/ res.status \in {"warning", NoKey}
    \/ res.status = "error" /\ res.message = NoKey
    \/ res.status = "skipped" /\ res.reason = NoKey

C23_ModesCheckedBeforeWork ==
    (/\ InDefaultRun /\ pc = "done" /\ exit_code = 1
     /\ \E d \in DomainNames : HasPrinted(Say("Unknown mode", d))) =>
        \A i \in 1..Len(calls) : calls[i].fn # "run"

\* C24: _explode_bom_tree terminates with a result for every BOM master table
\* and every product id, also when a component is directly or transitively
\* its own parent: no explosion started by resolve_bill_of_materials ends in
\* the interpreter's RecursionError.
C24_ExplodeTerminates ==
    (uout.done /\ ucall.op = "resolve_bill_of_materials"
     /\ ProducedIds(ucall.df) # {}) =>
        uout.val.raised # "RecursionError"

\* C25: for the same dataset, library and suite, run_domain_expectations and
\* build_validation_report count the same expectations as passed and as
\* failed; an expectation whose evaluation raises is a failure in both and
\* aborts neither of them.
C25_SameCounts ==
    (uout.done /\ ucall.op = "build_validation_report") =>
        LET r == run_domain_expectations(ucall.lib, ucall.domain, ucall.df, FALSE)
        IN /\ uout.val.raised = "none"
           /\ r.raised = "none"
           /\ r.passed = uout.val.passed
           /\ r.total - r.passed = uout.val.total - uout.val.passed
           /\ Len(r.failed_expectations) = uout.val.total - uout.val.passed

\* C26: in the frame clean_sales_records returns, every sale row has an
\* amount >= 0, every return row an amount <= 0 and every void row the
\* amount 0, also when the input frame has an amount_raw column.
C26_SignByRecordType ==
    (uout.done /\ ucall.op = "clean_sales_records" /\ uout.val.raised = "none") =>
        \A i \in 1..Len(uout.val.rows) :
            LET row == uout.val.rows[i]
            IN /\ ucall.df[i].record_type = "sale" => row.amount >= 0
               /\ ucall.df[i].record_type = "return" => row.amount <= 0
               /\ ucall.df[i].record_type = "void" => row.amount = 0

\* C27: _normalize_amounts and _validate_journal_balance judge a journal by
\* the same criterion: on the frame _normalize_amounts returns, a journal is
\* among its unbalanced ones exactly when _validate_journal_balance rejects
\* the journal's lines, also when the totals differ by exactly 0.01.
C27_SameBalanceCriterion ==
    (uout.done /\ ucall.op = "_normalize_amounts") =>
        \A j \in 1..Len(JournalIds) :
            LET lines == LinesOf(uout.val.rows, JournalIds[j])
            IN lines # <<>> =>
                  ((JournalIds[j] \in uout.val.unbalanced)
                       <=> ~_validate_journal_balance(lines))

\* C28: the two account classifiers agree: _classify_category returns asset,
\* liability, equity or revenue exactly when classify_account_type returns
\* the same value, and it returns expense only for codes that
\* classify_account_type maps to cost_of_goods, operating_expense or
\* other_expense.
C28_ClassifiersAgree ==
    (uout.done /\ ucall.op = "_classify_category") =>
        LET account_type == classify_account_type(ucall.code)
            shared == {"asset", "liability", "equity", "revenue"}
        IN /\ (uout.val \in shared \/ account_type \in shared) => uout.val = account_type
           /\ uout.val = "expense" =>
                  account_type \in {"cost_of_goods", "operating_expense", "other_expense"}
====
